---- MODULE Spec2Model ----
(***************************************************************************)
(* Gmail Sender Info: a model of the background service worker             *)
(* (src/src/background.js), the content script (src/unnamed/part_003, the  *)
(* current revision of src/src/content.js) and the page-context header     *)
(* fetcher (src/src/page-fetch.js).                                        *)
(*                                                                         *)
(* Text is modelled as a sequence of tokens: a token is a run of           *)
(* characters without separator (a domain label, a mailbox name) or one    *)
(* separator character (".", "@", " ").  "mail.example.co.uk" is           *)
(* <<"mail", ".", "example", ".", "co", ".", "uk">>.                       *)
(***************************************************************************)
EXTENDS Integers, Sequences, FiniteSets, TLC

(***************************************************************************)
(* Generic helpers for token text.                                         *)
(***************************************************************************)

\* String.prototype.toLowerCase on one token.
LowerToken(t) ==
    CASE t = "Mail" -> "mail"
      [] t = "Example" -> "example"
      [] t = "CO" -> "co"
      [] t = "UK" -> "uk"
      [] t = "Bob" -> "bob"
      [] t = "SAFE" -> "safe"
      [] t = "Reject" -> "reject"
      [] t = "VERDICT" -> "verdict"
      [] t = "U" -> "u"
      [] t = "S" -> "s"
      [] OTHER -> t

\* String.prototype.toLowerCase
toLowerCase(s) == [i \in 1..Len(s) |-> LowerToken(s[i])]

\* Index of the first occurrence of separator sep in s at or after position
\* from, or Len(s) + 1 when there is none.
RECURSIVE IndexFrom(_, _, _)
IndexFrom(s, sep, from) ==
    IF from > Len(s) THEN Len(s) + 1
    ELSE IF s[from] = sep THEN from
    ELSE IndexFrom(s, sep, from + 1)

\* String.prototype.split(sep): the sequence of the pieces between the
\* separators (a text without separator gives one piece, possibly empty).
RECURSIVE split(_, _)
split(s, sep) ==
    LET i == IndexFrom(s, sep, 1)
    IN  IF i > Len(s) THEN << s >>
        ELSE << SubSeq(s, 1, i - 1) >> \o split(SubSeq(s, i + 1, Len(s)), sep)

\* Array.prototype.join(sep)
RECURSIVE join(_, _)
join(parts, sep) ==
    IF Len(parts) = 0 THEN << >>
    ELSE IF Len(parts) = 1 THEN parts[1]
    ELSE parts[1] \o << sep >> \o join(Tail(parts), sep)

\* Array.prototype.slice(-n)
sliceLast(parts, n) ==
    IF Len(parts) <= n THEN parts ELSE SubSeq(parts, Len(parts) - n + 1, Len(parts))

\* String.prototype.includes for a one-character needle
includes(s, c) == \E i \in 1..Len(s) : s[i] = c

(***************************************************************************)
(* background.js: Domain Normalizer                                        *)
(***************************************************************************)

CACHE_TTL_MS == 24 * 60 * 60 * 1000

MULTI_PART_TLDS == {
    <<"co", ".", "uk">>, <<"org", ".", "uk">>, <<"ac", ".", "uk">>, <<"gov", ".", "uk">>, <<"me", ".", "uk">>, <<"net", ".", "uk">>,
    <<"com", ".", "au">>, <<"net", ".", "au">>, <<"org", ".", "au">>, <<"edu", ".", "au">>, <<"gov", ".", "au">>,
    <<"co", ".", "nz">>, <<"net", ".", "nz">>, <<"org", ".", "nz">>,
    <<"co", ".", "in">>, <<"net", ".", "in">>, <<"org", ".", "in">>, <<"gen", ".", "in">>, <<"firm", ".", "in">>, <<"ind", ".", "in">>,
    <<"co", ".", "za">>, <<"org", ".", "za">>, <<"web", ".", "za">>,
    <<"co", ".", "jp">>, <<"or", ".", "jp">>, <<"ne", ".", "jp">>, <<"ac", ".", "jp">>,
    <<"com", ".", "br">>, <<"net", ".", "br">>, <<"org", ".", "br">>,
    <<"com", ".", "mx">>, <<"org", ".", "mx">>, <<"net", ".", "mx">>,
    <<"com", ".", "cn">>, <<"net", ".", "cn">>, <<"org", ".", "cn">>,
    <<"co", ".", "kr">>, <<"or", ".", "kr">>, <<"ne", ".", "kr">>,
    <<"com", ".", "sg">>, <<"org", ".", "sg">>, <<"net", ".", "sg">>,
    <<"com", ".", "hk">>, <<"org", ".", "hk">>, <<"net", ".", "hk">>,
    <<"co", ".", "il">>, <<"org", ".", "il">>, <<"net", ".", "il">>,
    <<"com", ".", "tw">>, <<"org", ".", "tw">>, <<"net", ".", "tw">>,
    <<"com", ".", "ar">>, <<"org", ".", "ar">>, <<"net", ".", "ar">>,
    <<"co", ".", "th">>, <<"or", ".", "th">>, <<"in", ".", "th">>,
    <<"com", ".", "tr">>, <<"org", ".", "tr">>, <<"net", ".", "tr">> }

\* getRootDomain with the multi-part branch returning the last two labels
getRootDomain_TwoLabels(domain) ==
    LET parts == split(toLowerCase(domain), ".")
    IN  IF Len(parts) <= 2 THEN toLowerCase(domain)
        ELSE join(sliceLast(parts, 2), ".")

getRootDomain(domain) ==
    LET parts == split(toLowerCase(domain), ".")
        lastTwo == join(sliceLast(parts, 2), ".")
    IN  IF Len(parts) <= 2 THEN toLowerCase(domain)
        ELSE IF lastTwo \in MULTI_PART_TLDS THEN join(sliceLast(parts, 3), ".")
        ELSE join(sliceLast(parts, 2), ".")

(***************************************************************************)
(* background.js: Brand Resolver                                           *)
(***************************************************************************)

NoUrl == << >>

\* String.prototype.endsWith for a one-token suffix
endsWith(s, suffix) == Len(s) > 0 /\ s[Len(s)] = suffix

\* The TXT answers a DNS-over-HTTPS response can carry for default._bimi.<domain>:
\* bimi says whether the record starts with v=BIMI1, l is the value of its l= tag
\* (NoUrl when the tag is missing).
BimiSvgUrl(domain) == << "https://" >> \o domain \o << "/logo", ".svg" >>

BimiPngUrl(domain) == << "https://" >> \o domain \o << "/logo", ".png" >>

DnsResponses(domain) ==
    { [kind |-> "throw", answers |-> << >>],
      [kind |-> "notok", answers |-> << >>],
      [kind |-> "noanswer", answers |-> << >>],
      [kind |-> "answer", answers |-> << [bimi |-> TRUE, l |-> BimiSvgUrl(domain)] >>],
      [kind |-> "answer", answers |-> << [bimi |-> TRUE, l |-> BimiPngUrl(domain)] >>],
      [kind |-> "answer", answers |-> << [bimi |-> FALSE, l |-> BimiSvgUrl(domain)] >>],
      [kind |-> "answer", answers |-> << [bimi |-> TRUE, l |-> NoUrl] >>],
      [kind |-> "answer", answers |-> << [bimi |-> TRUE, l |-> BimiPngUrl(domain)],
                                         [bimi |-> TRUE, l |-> BimiSvgUrl(domain)] >>] }

\* The for loop of lookupBimi over data.Answer
RECURSIVE FirstBimiLogo(_)
FirstBimiLogo(answers) ==
    IF Len(answers) = 0 THEN NoUrl
    ELSE LET a == Head(answers)
         IN  IF a.bimi /\ a.l # NoUrl /\ endsWith(a.l, ".svg") THEN a.l
             ELSE FirstBimiLogo(Tail(answers))

lookupBimi(resp) ==
    IF resp.kind = "answer" THEN FirstBimiLogo(resp.answers) ELSE NoUrl

googleFaviconUrl(domain) ==
    << "https://www.google.com/s2/favicons?domain=" >> \o domain \o << "&sz=32" >>

directFaviconUrl(domain) == << "https://" >> \o domain \o << "/favicon.ico" >>

\* Byte streams of favicon images; NoBytes is the null globeRefBytes.
NoBytes == << 0 - 1 >>

FaviconBytes == { << 1, 2 >>, << 1, 3 >>, << 1 >> }

\* What a fetch of a gstatic faviconV2 URL can give: an exception, a non-OK
\* status, or an OK response with a byte stream.
FaviconResponses ==
    { [kind |-> "throw", bytes |-> NoBytes], [kind |-> "notok", bytes |-> NoBytes] }
    \cup { [kind |-> "ok", bytes |-> b] : b \in FaviconBytes }

\* What the fetch for the known-nonexistent domain can give: a failure or the
\* service's generic icon.
GlobeIconBytes == << 1, 2 >>

ReferenceResponses ==
    { r \in FaviconResponses : r.kind = "ok" => r.bytes = GlobeIconBytes }

\* checkIsGlobe after Promise.all: ref is the result of getGlobeRefBytes,
\* resp the response for the domain.
checkIsGlobe(ref, resp) ==
    IF resp.kind = "throw" THEN FALSE
    ELSE IF ref = NoBytes \/ resp.kind # "ok" THEN FALSE
    ELSE IF Len(ref) # Len(resp.bytes) THEN FALSE
    ELSE \A i \in 1..Len(ref) : ref[i] = resp.bytes[i]

NoInfo == [none |-> TRUE]

\* The object returned by resolveLogo, with logoSource unknown for a generic favicon
resolveLogoInfo_UnknownOnGlobe(fullDomain, bimiUrl, rootIsGlobe) ==
    LET rootDomain == getRootDomain(fullDomain)
        wwwDomain == << "www", "." >> \o rootDomain
    IN  [ fullDomain |-> fullDomain,
          rootDomain |-> rootDomain,
          logoUrl |-> bimiUrl,
          logoSource |-> IF bimiUrl # NoUrl THEN "bimi"
                         ELSE IF rootIsGlobe THEN "unknown" ELSE "favicon",
          faviconRootUrl |-> googleFaviconUrl(rootDomain),
          faviconRootIsGlobe |-> rootIsGlobe,
          faviconDirectUrl |-> directFaviconUrl(rootDomain),
          favicons |->
            [ sub |-> [domain |-> fullDomain, googleUrl |-> googleFaviconUrl(fullDomain),
                       directUrl |-> directFaviconUrl(fullDomain)],
              root |-> [domain |-> rootDomain, googleUrl |-> googleFaviconUrl(rootDomain),
                        directUrl |-> directFaviconUrl(rootDomain)],
              www |-> [domain |-> wwwDomain, googleUrl |-> googleFaviconUrl(wwwDomain),
                       directUrl |-> directFaviconUrl(wwwDomain)] ] ]

\* The object returned by resolveLogo
resolveLogoInfo(fullDomain, bimiUrl, rootIsGlobe) ==
    LET rootDomain == getRootDomain(fullDomain)
        wwwDomain == << "www", "." >> \o rootDomain
    IN  [ fullDomain |-> fullDomain,
          rootDomain |-> rootDomain,
          logoUrl |-> bimiUrl,
          logoSource |-> IF bimiUrl # NoUrl THEN "bimi" ELSE "favicon",
          faviconRootUrl |-> googleFaviconUrl(rootDomain),
          faviconRootIsGlobe |-> rootIsGlobe,
          faviconDirectUrl |-> directFaviconUrl(rootDomain),
          favicons |->
            [ sub |-> [domain |-> fullDomain, googleUrl |-> googleFaviconUrl(fullDomain),
                       directUrl |-> directFaviconUrl(fullDomain)],
              root |-> [domain |-> rootDomain, googleUrl |-> googleFaviconUrl(rootDomain),
                        directUrl |-> directFaviconUrl(rootDomain)],
              www |-> [domain |-> wwwDomain, googleUrl |-> googleFaviconUrl(wwwDomain),
                       directUrl |-> directFaviconUrl(wwwDomain)] ] ]

\* resolveLogo run to completion against the given network answers: the BIMI
\* lookup of the full domain, the one of the root domain (made only when the
\* first gave nothing and the domains differ), then the globe check.
resolveLogo(fullDomain, dnsFull, dnsRoot, ref, favResp) ==
    LET rootDomain == getRootDomain(fullDomain)
        first == lookupBimi(dnsFull)
        bimiUrl == IF first = NoUrl /\ rootDomain # fullDomain
                   THEN lookupBimi(dnsRoot) ELSE first
    IN  resolveLogoInfo(fullDomain, bimiUrl, checkIsGlobe(ref, favResp))

(***************************************************************************)
(* Content script: verdict engine                                          *)
(***************************************************************************)

ABSENT == "absent"

SpfTokens == {"pass", "fail", "softfail", "neutral", "none", "temperror", "permerror"}

DkimTokens == {"pass", "fail", "neutral", "none", "temperror", "permerror"}

DmarcTokens == {"pass", "fail", "bestguesspass", "none", "temperror", "permerror"}

NoAuth == [none |-> TRUE]

\* The objects parseAuthResults and the HTML path of page-fetch.js can build:
\* each key is a token of its enumeration or absent.
AuthRecords ==
    [ spf : SpfTokens \cup {ABSENT}, dkim : DkimTokens \cup {ABSENT},
      dmarc : DmarcTokens \cup {ABSENT}, originalSender : BOOLEAN ]

\* getVerdict that lets a failed SPF decide on its own
getVerdict_SpfAlone(authResults, info) ==
    IF authResults = NoAuth THEN "caution"
    ELSE IF authResults.spf = "pass" /\ authResults.dkim = "pass"
            /\ authResults.dmarc = "pass" THEN "trusted"
    ELSE IF authResults.dmarc = "fail" \/ authResults.dkim = "fail" THEN "dangerous"
    ELSE IF authResults.spf = "fail" THEN "dangerous"
    ELSE "caution"

\* getVerdict that does not look at DMARC before trusting
getVerdict_NoDmarc(authResults, info) ==
    IF authResults = NoAuth THEN "caution"
    ELSE IF authResults.spf = "pass" /\ authResults.dkim = "pass" THEN "trusted"
    ELSE IF authResults.dmarc = "fail" \/ authResults.dkim = "fail" THEN "dangerous"
    ELSE IF authResults.spf = "fail" /\ authResults.dkim # "pass" THEN "dangerous"
    ELSE "caution"

\* getVerdict that counts a soft failure of SPF as a failure
getVerdict_SoftFail(authResults, info) ==
    IF authResults = NoAuth THEN "caution"
    ELSE IF authResults.spf = "pass" /\ authResults.dkim = "pass"
            /\ authResults.dmarc = "pass" THEN "trusted"
    ELSE IF authResults.dmarc = "fail" \/ authResults.dkim = "fail" THEN "dangerous"
    ELSE IF authResults.spf \in {"fail", "softfail"} /\ authResults.dkim # "pass"
         THEN "dangerous"
    ELSE "caution"

getVerdict(authResults, info) ==
    IF authResults = NoAuth THEN "caution"
    ELSE IF authResults.spf = "pass" /\ authResults.dkim = "pass"
            /\ authResults.dmarc = "pass" THEN "trusted"
    ELSE IF authResults.dmarc = "fail" \/ authResults.dkim = "fail" THEN "dangerous"
    ELSE IF authResults.spf = "fail" /\ authResults.dkim # "pass" THEN "dangerous"
    ELSE "caution"

SOURCE_BIMI == "bimi"

SOURCE_FAVICON == "favicon"

SOURCE_UNKNOWN == "unknown"

CAUTION_URL == << "images/caution.svg" >>

\* A chain whose last entry, the caution icon, is tagged as a favicon
LogoChain_CautionAsFavicon(info) ==
    (IF info.logoUrl # NoUrl THEN << [url |-> info.logoUrl, source |-> SOURCE_BIMI] >>
     ELSE << >>)
    \o (IF info.faviconRootUrl # NoUrl /\ ~info.faviconRootIsGlobe
        THEN << [url |-> info.faviconRootUrl, source |-> SOURCE_FAVICON] >> ELSE << >>)
    \o (IF info.faviconDirectUrl # NoUrl
        THEN << [url |-> info.faviconDirectUrl, source |-> SOURCE_FAVICON] >> ELSE << >>)
    \o << [url |-> CAUTION_URL, source |-> SOURCE_FAVICON] >>

\* The fallback chain createLogoImg builds for its <img>
LogoChain(info) ==
    (IF info.logoUrl # NoUrl THEN << [url |-> info.logoUrl, source |-> SOURCE_BIMI] >>
     ELSE << >>)
    \o (IF info.faviconRootUrl # NoUrl /\ ~info.faviconRootIsGlobe
        THEN << [url |-> info.faviconRootUrl, source |-> SOURCE_FAVICON] >> ELSE << >>)
    \o (IF info.faviconDirectUrl # NoUrl
        THEN << [url |-> info.faviconDirectUrl, source |-> SOURCE_FAVICON] >> ELSE << >>)
    \o << [url |-> CAUTION_URL, source |-> SOURCE_UNKNOWN] >>

\* setVerdict: the verdict key the summary column and the inline badge show
setVerdict(verdictKey) ==
    IF verdictKey \in {"trusted", "caution", "dangerous", "loading"} THEN verdictKey
    ELSE "caution"

\* The onSourceResolved callback of insertBanner that only records the source
logoCallback_RecordOnly(sourceKey, bs, shown) ==
    [ bannerState |-> [bs EXCEPT !.resolvedLogoSource = sourceKey],
      summaryVerdict |-> shown ]

\* The onSourceResolved callback insertBanner gives to createLogoImg
\* (summaryElRef is set before any image event can be delivered).
logoCallback(sourceKey, bs, shown) ==
    [ bannerState |-> [bs EXCEPT !.resolvedLogoSource = sourceKey],
      summaryVerdict |-> IF sourceKey = SOURCE_UNKNOWN /\ bs.authVerdict = "trusted"
                         THEN setVerdict("caution") ELSE shown ]

\* The verdict key createSecuritySection computes once it has auth results
securityVerdict(auth, info, bs) ==
    LET verdictKey == getVerdict(auth, info)
    IN  IF bs.resolvedLogoSource = SOURCE_UNKNOWN /\ verdictKey = "trusted"
        THEN "caution" ELSE verdictKey

\* The exits of createSecuritySection without auth results, forgetting the verdict
securityUnavailable_NoVerdict(shown) == shown

\* The exits of createSecuritySection without auth results (no message id,
\* fetch error or timeout, nothing parsed): setVerdict(summaryEl, 'caution', ...)
securityUnavailable(shown) == setVerdict("caution")

\* parseAuthResults on raw headers: authLine says whether an
\* Authentication-Results line with text was found, auth holds the tokens its
\* three regular expressions match.
parseAuthResults(headers) ==
    IF ~headers.authLine THEN NoAuth
    ELSE IF headers.auth.spf = ABSENT /\ headers.auth.dkim = ABSENT
            /\ headers.auth.dmarc = ABSENT THEN NoAuth
    ELSE [headers.auth EXCEPT !.originalSender = FALSE]

\* The gsi-headers-result messages page-fetch.js can post for a request
HeaderFetchResults ==
    { [kind |-> "error", authLine |-> FALSE, auth |-> NoAuth] }
    \cup { [kind |-> "authData", authLine |-> FALSE, auth |-> a] :
             a \in { x \in AuthRecords : x.spf # ABSENT \/ x.dkim # ABSENT
                                         \/ x.dmarc # ABSENT \/ x.originalSender } }
    \cup { [kind |-> "headers", authLine |-> l, auth |-> a] :
             l \in BOOLEAN, a \in { x \in AuthRecords : ~x.originalSender } }

(***************************************************************************)
(* State                                                                   *)
(***************************************************************************)

VARIABLES
    \* getRootDomain applied to one input
    rdLabels, rdResult, rdPc,
    \* content script: one banner
    securityCache, bannerInfo, bannerState, summaryVerdict, secPc, secStatus,
    authResults, logoChain, logoIdx, logoStatus, aiSection,
    origFetch, currentBannerEmail, bannersInPage,
    \* background service worker
    store, now, ticks, storageUp, globeRefBytes, req,
    aiSession, aiAvailable, aiResultCache,
    \* content script: requestSenderInfo and its callers
    pendingRequests, promises, callers, contextValid, runtimeAlive,
    \* background service worker: AI messages, the language-model objects
    ai, sessions, clones, hasApi,
    \* content script: requestAiAnalysis promises, fetchEmailHeaders
    aiRequests, headerRequestId, pendingHeaderRequests, headerRequests,
    \* background service worker: one call of parseAiResult, of
    \* sanitizeForPrompt and of buildAiUserPrompt
    modelOutput, parsed, promptText, sanitized, emailData, userPrompt,
    \* content script: the page it reads, the result of getMessageId, the
    \* MutationObserver, the runs of insertBanner, the messages sent to the
    \* worker and the messages posted to the window
    dom, located, observer, insertions, sent, windowMessages

rootVars == << rdLabels, rdResult, rdPc >>

bannerContent == << securityCache, bannerInfo, bannerState, summaryVerdict, secPc,
                    secStatus, authResults, logoChain, logoIdx, logoStatus, aiSection,
                    origFetch >>

bannerVars == << bannerContent, currentBannerEmail, bannersInPage >>

workerVars == << store, now, ticks, storageUp, globeRefBytes, req,
                 aiSession, aiAvailable, aiResultCache >>

pageVars == << pendingRequests, promises, callers, contextValid, runtimeAlive >>

aiVars == << ai, sessions, clones, hasApi >>

asyncVars == << aiRequests, headerRequestId, pendingHeaderRequests, headerRequests >>

engineVars == << modelOutput, parsed, promptText, sanitized, emailData, userPrompt >>

viewVars == << dom, located, observer, insertions, sent, windowMessages >>

extraVars == << pageVars, aiVars, asyncVars, engineVars, viewVars >>

vars == << rootVars, bannerVars, workerVars, extraVars >>

RootIdle == rdLabels = << >> /\ rdResult = << >> /\ rdPc = "idle"

BannerIdle ==
    /\ securityCache = << >>
    /\ bannerInfo = NoInfo
    /\ bannerState = [resolvedLogoSource |-> "null", authVerdict |-> "null"]
    /\ summaryVerdict = "none"
    /\ secPc = "none"
    /\ secStatus = "none"
    /\ authResults = NoAuth
    /\ logoChain = << >>
    /\ logoIdx = 1
    /\ logoStatus = "none"
    /\ aiSection = [pc |-> "none", icon |-> "hidden", row |-> "none"]
    /\ origFetch = "none"
    /\ currentBannerEmail = << >>
    /\ bannersInPage = 0

NoResponse == [none |-> TRUE]

\* A request slot no getSenderInfo message has used yet
IdleRequest ==
    [ pc |-> "idle", email |-> << >>, resolves |-> 0, bimiUrl |-> NoUrl,
      ref |-> NoBytes, info |-> NoInfo, response |-> NoResponse ]

MaxRequests == 1

\* The content script before any call of requestSenderInfo
PageIdle ==
    /\ pendingRequests = << >>
    /\ promises = << >>
    /\ callers = << >>
    /\ contextValid = TRUE
    /\ runtimeAlive = TRUE

\* No AI message received, no language-model object created
AiIdle ==
    /\ ai = << >>
    /\ sessions = << >>
    /\ clones = << >>
    /\ hasApi = TRUE

\* No requestAiAnalysis and no fetchEmailHeaders call yet
AsyncIdle ==
    /\ aiRequests = << >>
    /\ headerRequestId = 0
    /\ pendingHeaderRequests = { }
    /\ headerRequests = << >>

\* None of the three functions has been called
EngineIdle ==
    /\ modelOutput = << >> /\ parsed = << >>
    /\ promptText = << >> /\ sanitized = << >>
    /\ emailData = << >> /\ userPrompt = << >>

ViewIdle ==
    /\ dom = << >>
    /\ located = << >>
    /\ observer = [active |-> FALSE, connected |-> FALSE]
    /\ insertions = << >>
    /\ sent = << >>
    /\ windowMessages = << >>

ExtraIdle == PageIdle /\ AiIdle /\ AsyncIdle /\ EngineIdle /\ ViewIdle

WorkerIdle ==
    /\ store = << >>
    /\ now = 0
    /\ ticks = 0
    /\ storageUp = TRUE
    /\ globeRefBytes = NoBytes
    /\ req = [r \in 1..MaxRequests |-> IdleRequest]
    /\ aiSession = "null"
    /\ aiAvailable = "null"
    /\ aiResultCache = << >>

(***************************************************************************)
(* getRootDomain on bounded inputs                                         *)
(***************************************************************************)

MaxLabels == 4

Labels == {"mail", "example", "co", "uk", "com", "newsletter", "stripe", "CO"}

LabelSeqs == UNION { [1..n -> Labels] : n \in 0..MaxLabels }

InitRoot ==
    /\ rdLabels \in LabelSeqs
    /\ rdResult = << >>
    /\ rdPc = "call"
    /\ BannerIdle
    /\ WorkerIdle
    /\ ExtraIdle

RootDomainCall ==
    /\ rdPc = "call"
    /\ rdResult' = getRootDomain(join([i \in 1..Len(rdLabels) |-> << rdLabels[i] >>], "."))
    /\ rdPc' = "done"
    /\ UNCHANGED << rdLabels, bannerVars, workerVars, extraVars >>

NextRoot == RootDomainCall

SpecRoot == InitRoot /\ [][NextRoot]_vars

(***************************************************************************)
(* Content script: the banner of the opened email                          *)
(***************************************************************************)

SenderDomains ==
    { << "mail", ".", "example", ".", "co", ".", "uk" >>, << "stripe", ".", "com" >> }

MessageIds == { "18c2a4f1b3d" }

NoMessageId == "null"

\* The SenderInfo objects resolveLogo can produce for the sender domains, over
\* all DNS answers, memoized reference bytes and favicon responses.
SenderInfos ==
    UNION { UNION { { resolveLogo(d, dnsFull, dnsRoot, ref, favResp) :
                        dnsRoot \in DnsResponses(getRootDomain(d)),
                        ref \in {GlobeIconBytes, NoBytes},
                        favResp \in FaviconResponses } :
                    dnsFull \in DnsResponses(d) } :
            d \in SenderDomains }

\* insertBanner: createLogoImg, a fresh bannerState, then createSecuritySection
\* up to its first await.  info is what requestSenderInfo resolved to, msgResult
\* what getMessageId finds.
insertBanner(info, msgResult) ==
       LET bs == [resolvedLogoSource |-> "null", authVerdict |-> "null"]
       IN  /\ bannerInfo' = info
           /\ bannersInPage' = (IF bannersInPage > 0 THEN bannersInPage - 1 ELSE 0) + 1
           /\ currentBannerEmail' = info.fullDomain
           /\ aiSection' = [pc |-> "check", icon |-> "hidden", row |-> "none"]
           /\ origFetch' = IF msgResult = NoMessageId THEN "done" ELSE msgResult
           /\ logoChain' = LogoChain(info)
           /\ logoIdx' = 1
           /\ logoStatus' = "loading"
           /\ IF msgResult = NoMessageId
              THEN /\ secStatus' = "Unable to find message ID"
                   /\ summaryVerdict' = securityUnavailable("loading")
                   /\ bannerState' = bs
                   /\ authResults' = NoAuth
                   /\ secPc' = "done"
              ELSE IF msgResult \in DOMAIN securityCache
              THEN LET verdictKey == securityVerdict(securityCache[msgResult], info, bs)
                   IN  /\ secStatus' = "rows"
                       /\ authResults' = securityCache[msgResult]
                       /\ bannerState' = [bs EXCEPT !.authVerdict = verdictKey]
                       /\ summaryVerdict' = setVerdict(verdictKey)
                       /\ secPc' = "done"
              ELSE /\ secStatus' = "Checking"
                   /\ summaryVerdict' = "loading"
                   /\ bannerState' = bs
                   /\ authResults' = NoAuth
                   /\ secPc' = msgResult
           /\ UNCHANGED securityCache

\* insertBanner(info, envelopeEmail) in a page where getMessageId() gives
\* msgResult
InsertBannerWith(info, msgResult) ==
    /\ insertBanner(info, msgResult)
    /\ UNCHANGED << rootVars, workerVars, extraVars >>

InsertBanner ==
    \E info \in SenderInfos, msgResult \in MessageIds \cup {NoMessageId} :
       InsertBannerWith(info, msgResult)

\* createSecuritySection resumes with the result of fetchEmailHeaders
HeaderResultWith(result) ==
       /\ secPc \in MessageIds
       /\ IF result.kind = "error"
          THEN /\ secStatus' = "Unable to check"
               /\ summaryVerdict' = securityUnavailable(summaryVerdict)
               /\ UNCHANGED << securityCache, bannerState, authResults >>
          ELSE LET auth == IF result.kind = "authData" THEN result.auth
                           ELSE parseAuthResults(result)
               IN  /\ authResults' = auth
                   /\ securityCache' =
                        IF auth # NoAuth
                        THEN [m \in DOMAIN securityCache \cup {secPc} |->
                                 IF m = secPc THEN auth ELSE securityCache[m]]
                        ELSE securityCache
                   /\ IF auth = NoAuth
                      THEN /\ secStatus' = "No auth results found"
                           /\ summaryVerdict' = securityUnavailable(summaryVerdict)
                           /\ UNCHANGED bannerState
                      ELSE LET verdictKey == securityVerdict(auth, bannerInfo, bannerState)
                           IN  /\ secStatus' = "rows"
                               /\ bannerState' =
                                    [bannerState EXCEPT !.authVerdict = verdictKey]
                               /\ summaryVerdict' = setVerdict(verdictKey)
       /\ secPc' = "done"
       /\ UNCHANGED << bannerInfo, logoChain, logoIdx, logoStatus, aiSection, origFetch, currentBannerEmail, bannersInPage,
                       rootVars, workerVars, extraVars >>

HeaderResult == \E result \in HeaderFetchResults : HeaderResultWith(result)

\* The 10 second timer of fetchEmailHeaders fires first
HeaderTimeout ==
    /\ secPc \in MessageIds
    /\ secStatus' = "Unable to check (timeout)"
    /\ summaryVerdict' = securityUnavailable(summaryVerdict)
    /\ secPc' = "done"
    /\ UNCHANGED << securityCache, bannerState, authResults, bannerInfo, logoChain,
                    logoIdx, logoStatus, aiSection, origFetch, currentBannerEmail, bannersInPage, rootVars, workerVars, extraVars >>

\* img.onload of the logo
ImgLoad ==
    /\ logoStatus = "loading"
    /\ LET r == logoCallback(logoChain[logoIdx].source, bannerState, summaryVerdict)
       IN  /\ bannerState' = r.bannerState
           /\ summaryVerdict' = r.summaryVerdict
    /\ logoStatus' = "loaded"
    /\ UNCHANGED << securityCache, bannerInfo, secPc, secStatus, authResults,
                    logoChain, logoIdx, aiSection, origFetch, currentBannerEmail, bannersInPage, rootVars, workerVars, extraVars >>

\* img.onerror of the logo
ImgError ==
    /\ logoStatus = "loading"
    /\ IF logoIdx + 1 <= Len(logoChain)
       THEN logoIdx' = logoIdx + 1 /\ logoStatus' = "loading"
       ELSE logoIdx' = logoIdx + 1 /\ logoStatus' = "failed"
    /\ UNCHANGED << securityCache, bannerInfo, bannerState, summaryVerdict, secPc,
                    secStatus, authResults, logoChain, aiSection, origFetch, currentBannerEmail, bannersInPage, rootVars, workerVars,
                    extraVars >>

InitBanner == BannerIdle /\ RootIdle /\ WorkerIdle /\ ExtraIdle

NextBanner == InsertBanner \/ HeaderResult \/ HeaderTimeout \/ ImgLoad \/ ImgError

SpecBanner == InitBanner /\ [][NextBanner]_vars

(***************************************************************************)
(* background.js: the getSenderInfo handler, the cache and the reset        *)
(***************************************************************************)

\* String.prototype.trim on token text: blanks are " " tokens
RECURSIVE trimStart(_)
trimStart(s) == IF Len(s) > 0 /\ s[1] = " " THEN trimStart(Tail(s)) ELSE s

RECURSIVE trimEnd(_)
trimEnd(s) ==
    IF Len(s) > 0 /\ s[Len(s)] = " " THEN trimEnd(SubSeq(s, 1, Len(s) - 1)) ELSE s

trim(s) == trimEnd(trimStart(s))

\* (msg.email || '').toLowerCase().trim()
normalizeEmail(raw) == trim(toLowerCase(raw))

\* email.split('@')[1]
emailDomain(email) == split(email, "@")[2]

\* The email fields getSenderInfo messages carry (<< >> is a missing field)
RawEmails ==
    { << "bob", "@", "mail", ".", "example", ".", "co", ".", "uk" >>,
      << " ", "Bob", "@", "Mail", ".", "Example", ".", "CO", ".", "UK", " " >>,
      << "bob" >>,
      << >> }

\* Clock advances between events, in milliseconds
Deltas == { CACHE_TTL_MS - 1, CACHE_TTL_MS + 1 }

MaxTicks == 1

\* chrome.storage.local with one key written or removed
StoreSet(st, key, value) ==
    [k \in DOMAIN st \cup {key} |-> IF k = key THEN value ELSE st[k]]

StoreRemove(st, key) == [k \in DOMAIN st \ {key} |-> st[k]]

\* getCached whose expiry test subtracts the wrong way round
cacheExpired_Swapped(entry, t) == entry.ts - t > CACHE_TTL_MS

\* getCached: Date.now() - entry.ts > CACHE_TTL_MS
cacheExpired(entry, t) == t - entry.ts > CACHE_TTL_MS

\* setCache that stamps the entry with time zero
cacheEntry_NoStamp(data, t) == [data |-> data, ts |-> 0]

\* setCache: the object stored under the address
cacheEntry(data, t) == [data |-> data, ts |-> t]

\* onMessage, action getSenderInfo, up to the start of the async function
GetSenderInfoWith(r, raw) ==
       LET email == normalizeEmail(raw)
       IN  /\ req[r].pc \in {"idle", "done"}
           /\ IF email = << >> \/ ~includes(email, "@")
              THEN req' = [req EXCEPT ![r] =
                              [IdleRequest EXCEPT !.pc = "done", !.email = email,
                                                  !.response = [error |-> "Invalid email"]]]
              ELSE req' = [req EXCEPT ![r] =
                              [IdleRequest EXCEPT !.pc = "getCached", !.email = email]]
           /\ UNCHANGED << store, now, ticks, storageUp, globeRefBytes,
                           aiSession, aiAvailable, aiResultCache, rootVars, bannerVars, extraVars >>

GetSenderInfo(r) == \E raw \in RawEmails : GetSenderInfoWith(r, raw)

\* A getCached that lets a storage failure reach the caller
GetCached_FailsOutward(r) ==
    /\ req[r].pc = "getCached"
    /\ LET email == req[r].email
       IN  IF ~storageUp
           THEN /\ req' = [req EXCEPT ![r].pc = "done",
                                      ![r].response = [error |-> "Invalid email"]]
                /\ store' = store
           ELSE IF email \notin DOMAIN store
           THEN /\ req' = [req EXCEPT ![r].pc = "bimiFull"]
                /\ store' = store
           ELSE IF cacheExpired(store[email], now)
           THEN /\ req' = [req EXCEPT ![r].pc = "bimiFull"]
                /\ store' = StoreRemove(store, email)
           ELSE /\ req' = [req EXCEPT ![r].pc = "done",
                                      ![r].response = store[email].data]
                /\ store' = store
    /\ UNCHANGED << now, ticks, storageUp, globeRefBytes,
                    aiSession, aiAvailable, aiResultCache, rootVars, bannerVars, extraVars >>

\* getCached(email) and, on a hit, sendResponse(cached)
GetCached(r) ==
    /\ req[r].pc = "getCached"
    /\ LET email == req[r].email
       IN  IF ~storageUp
           THEN /\ req' = [req EXCEPT ![r].pc = "bimiFull"]
                /\ store' = store
           ELSE IF email \notin DOMAIN store
           THEN /\ req' = [req EXCEPT ![r].pc = "bimiFull"]
                /\ store' = store
           ELSE IF cacheExpired(store[email], now)
           THEN /\ req' = [req EXCEPT ![r].pc = "bimiFull"]
                /\ store' = StoreRemove(store, email)
           ELSE /\ req' = [req EXCEPT ![r].pc = "done",
                                      ![r].response = store[email].data]
                /\ store' = store
    /\ UNCHANGED << now, ticks, storageUp, globeRefBytes,
                    aiSession, aiAvailable, aiResultCache, rootVars, bannerVars, extraVars >>

\* A resolveLogo that asks for the root domain whatever the first lookup gave
LookupBimiFull_AlwaysRoot(r) ==
    /\ req[r].pc = "bimiFull"
    /\ LET fullDomain == emailDomain(req[r].email)
       IN  \E resp \in DnsResponses(fullDomain) :
              req' = [req EXCEPT ![r].bimiUrl = lookupBimi(resp),
                                 ![r].resolves = req[r].resolves + 1,
                                 ![r].pc = "bimiRoot"]
    /\ UNCHANGED << store, now, ticks, storageUp, globeRefBytes,
                    aiSession, aiAvailable, aiResultCache, rootVars, bannerVars, extraVars >>

\* resolveLogo: await lookupBimi(fullDomain)
LookupBimiFull(r) ==
    /\ req[r].pc = "bimiFull"
    /\ LET fullDomain == emailDomain(req[r].email)
       IN  \E resp \in DnsResponses(fullDomain) :
              LET bimiUrl == lookupBimi(resp)
              IN  req' = [req EXCEPT ![r].bimiUrl = bimiUrl,
                                     ![r].resolves = req[r].resolves + 1,
                                     ![r].pc = IF bimiUrl = NoUrl
                                                  /\ getRootDomain(fullDomain) # fullDomain
                                               THEN "bimiRoot" ELSE "globe"]
    /\ UNCHANGED << store, now, ticks, storageUp, globeRefBytes,
                    aiSession, aiAvailable, aiResultCache, rootVars, bannerVars, extraVars >>

\* resolveLogo: await lookupBimi(rootDomain)
LookupBimiRoot(r) ==
    /\ req[r].pc = "bimiRoot"
    /\ \E resp \in DnsResponses(getRootDomain(emailDomain(req[r].email))) :
          req' = [req EXCEPT ![r].bimiUrl = lookupBimi(resp), ![r].pc = "globe"]
    /\ UNCHANGED << store, now, ticks, storageUp, globeRefBytes,
                    aiSession, aiAvailable, aiResultCache, rootVars, bannerVars, extraVars >>

\* checkIsGlobe: getGlobeRefBytes() up to its await, and the fetch of the
\* domain's favicon is issued
GlobeStart(r) ==
    /\ req[r].pc = "globe"
    /\ IF globeRefBytes # NoBytes
       THEN req' = [req EXCEPT ![r].ref = globeRefBytes, ![r].pc = "favWait"]
       ELSE req' = [req EXCEPT ![r].pc = "refWait"]
    /\ UNCHANGED << store, now, ticks, storageUp, globeRefBytes,
                    aiSession, aiAvailable, aiResultCache, rootVars, bannerVars, extraVars >>

\* getGlobeRefBytes: the fetch of the reference icon settles
GlobeRefDone(r) ==
    /\ req[r].pc = "refWait"
    /\ \E resp \in ReferenceResponses :
          LET memo == IF resp.kind = "ok" THEN resp.bytes ELSE globeRefBytes
          IN  /\ globeRefBytes' = memo
              /\ req' = [req EXCEPT ![r].ref = memo, ![r].pc = "favWait"]
    /\ UNCHANGED << store, now, ticks, storageUp,
                    aiSession, aiAvailable, aiResultCache, rootVars, bannerVars, extraVars >>

\* checkIsGlobe: the fetch of the domain's favicon settles; resolveLogo returns
GlobeFavDone(r) ==
    /\ req[r].pc = "favWait"
    /\ \E resp \in FaviconResponses :
          req' = [req EXCEPT
                    ![r].info = resolveLogoInfo(emailDomain(req[r].email), req[r].bimiUrl,
                                                checkIsGlobe(req[r].ref, resp)),
                    ![r].bimiUrl = NoUrl,
                    ![r].ref = NoBytes,
                    ![r].pc = "setCache"]
    /\ UNCHANGED << store, now, ticks, storageUp, globeRefBytes,
                    aiSession, aiAvailable, aiResultCache, rootVars, bannerVars, extraVars >>

\* await setCache(email, info); sendResponse(info)
SetCacheRespond(r) ==
    /\ req[r].pc = "setCache"
    /\ store' = IF storageUp
                THEN StoreSet(store, req[r].email, cacheEntry(req[r].info, now))
                ELSE store
    /\ req' = [req EXCEPT ![r].response = req[r].info, ![r].pc = "done"]
    /\ UNCHANGED << now, ticks, storageUp, globeRefBytes,
                    aiSession, aiAvailable, aiResultCache, rootVars, bannerVars, extraVars >>

\* An onInstalled listener that leaves the AI result cache alone
OnInstalled_KeepsAiCache ==
    /\ store' = IF storageUp THEN << >> ELSE store
    /\ aiSession' = "null"
    /\ aiAvailable' = "null"
    /\ UNCHANGED << aiResultCache, now, ticks, storageUp, globeRefBytes, req,
                    rootVars, bannerVars, extraVars >>

\* chrome.runtime.onInstalled listener
OnInstalled ==
    /\ store' = IF storageUp THEN << >> ELSE store
    /\ aiSession' = "null"
    /\ aiAvailable' = "null"
    /\ aiResultCache' = << >>
    /\ UNCHANGED << now, ticks, storageUp, globeRefBytes, req, rootVars, bannerVars, extraVars >>

\* Time passes
Tick ==
    \E d \in Deltas :
       /\ ticks < MaxTicks
       /\ now' = now + d
       /\ ticks' = ticks + 1
       /\ UNCHANGED << store, storageUp, globeRefBytes, req,
                       aiSession, aiAvailable, aiResultCache, rootVars, bannerVars, extraVars >>

\* chrome.storage.local starts or stops failing (quota, unavailable)
StorageFlip ==
    /\ storageUp' = ~storageUp
    /\ UNCHANGED << store, now, ticks, globeRefBytes, req,
                    aiSession, aiAvailable, aiResultCache, rootVars, bannerVars, extraVars >>

Init == WorkerIdle /\ RootIdle /\ BannerIdle /\ ExtraIdle

Next ==
    \/ \E r \in 1..MaxRequests : GetSenderInfo(r)
    \/ \E r \in 1..MaxRequests : GetCached(r)
    \/ \E r \in 1..MaxRequests : LookupBimiFull(r)
    \/ \E r \in 1..MaxRequests : LookupBimiRoot(r)
    \/ \E r \in 1..MaxRequests : GlobeStart(r)
    \/ \E r \in 1..MaxRequests : GlobeRefDone(r)
    \/ \E r \in 1..MaxRequests : GlobeFavDone(r)
    \/ \E r \in 1..MaxRequests : SetCacheRespond(r)
    \/ OnInstalled
    \/ Tick
    \/ StorageFlip

Spec == Init /\ [][Next]_vars

(***************************************************************************)
(* Properties of the verdict (SpecBanner)                                  *)
(***************************************************************************)

AllPass(a) == a # NoAuth /\ a.spf = "pass" /\ a.dkim = "pass" /\ a.dmarc = "pass"

DangerRule(a) ==
    a # NoAuth /\ (a.dmarc = "fail" \/ a.dkim = "fail"
                   \/ (a.spf = "fail" /\ a.dkim # "pass"))

\* The security section has finished with auth results in hand
SecurityDone == secPc = "done" /\ authResults # NoAuth

\* An image event of the current logo (not the insertion of a new banner)
ImgStep == logoStatus = "loading" /\ (logoStatus' # "loading" \/ logoIdx' = logoIdx + 1)

C2_DangerousExactlyOnRule ==
    (SecurityDone /\ ~AllPass(authResults)) =>
        (summaryVerdict = "dangerous" <=> DangerRule(authResults))

C2_Witness ==
    /\ SecurityDone
    /\ authResults.spf = "fail" /\ authResults.dkim = ABSENT
    /\ authResults.dmarc = "pass"
    /\ bannerState.resolvedLogoSource = SOURCE_BIMI
    /\ summaryVerdict = "dangerous"

\* C3: the verdict is total: with auth results it is always one of trusted,
\* caution, dangerous; every triple that is neither all pass nor matched by the
\* dangerous rule gives caution; and no logo event changes a caution or
\* dangerous verdict.
C3_StateInv ==
    SecurityDone =>
        /\ summaryVerdict \in {"trusted", "caution", "dangerous"}
        /\ (~AllPass(authResults) /\ ~DangerRule(authResults))
              => summaryVerdict = "caution"

C3_TotalAndLogoNeutral ==
    /\ []C3_StateInv
    /\ [][(ImgStep /\ summaryVerdict \in {"caution", "dangerous"})
             => summaryVerdict' = summaryVerdict]_vars

C3_Witness ==
    /\ SecurityDone
    /\ authResults.spf = "softfail" /\ authResults.dkim = ABSENT
    /\ authResults.dmarc = ABSENT
    /\ bannerState.resolvedLogoSource = SOURCE_UNKNOWN
    /\ summaryVerdict = "caution"

\* C4: when the security section ends without auth results (no message id,
\* fetch error, fetch timeout, nothing recognised in the headers) the verdict
\* shown is caution, before and after the logo resolves.
C4_NoAuthIsCaution ==
    (secPc = "done" /\ authResults = NoAuth) => summaryVerdict = "caution"

C4_Witness ==
    /\ secPc = "done" /\ authResults = NoAuth
    /\ secStatus = "Unable to check (timeout)"
    /\ bannerState.resolvedLogoSource = SOURCE_BIMI
    /\ summaryVerdict = "caution"

C5_WitnessLogoFirst ==
    /\ SecurityDone /\ AllPass(authResults)
    /\ bannerState.resolvedLogoSource = SOURCE_UNKNOWN
    /\ bannerState.authVerdict = "caution"
    /\ summaryVerdict = "caution"

LogoSettled == logoStatus \in {"loaded", "failed"}

IsLowerCase(labels) == \A i \in 1..Len(labels) : LowerToken(labels[i]) = labels[i]

\* The text of a domain given by its labels, written out label by label
RECURSIVE Dotted(_)
Dotted(labels) ==
    IF Len(labels) = 0 THEN << >>
    ELSE IF Len(labels) = 1 THEN << labels[1] >>
    ELSE << labels[1], "." >> \o Dotted(Tail(labels))

\* C8: for a lowercase domain of at most two labels getRootDomain returns the
\* input; for three or more labels it returns the last three labels when the
\* last two are a multi-part suffix of the table and the last two otherwise.
C8_RootDomain ==
    (rdPc = "done" /\ IsLowerCase(rdLabels)) =>
        LET n == Len(rdLabels)
        IN  IF n <= 2 THEN rdResult = Dotted(rdLabels)
            ELSE IF << rdLabels[n - 1], ".", rdLabels[n] >> \in MULTI_PART_TLDS
            THEN rdResult = << rdLabels[n - 2], ".", rdLabels[n - 1], ".", rdLabels[n] >>
            ELSE rdResult = << rdLabels[n - 1], ".", rdLabels[n] >>

C8_Witness ==
    /\ rdPc = "done"
    /\ rdLabels = << "mail", "example", "co", "uk" >>
    /\ rdResult = << "example", ".", "co", ".", "uk" >>

C8_WitnessTwoLabels ==
    /\ rdPc = "done"
    /\ rdLabels = << "newsletter", "stripe", "com" >>
    /\ rdResult = << "stripe", ".", "com" >>

(***************************************************************************)
(* Properties of the Brand Resolver and the SenderInfo cache (Spec)        *)
(***************************************************************************)

Requests == 1..MaxRequests

IsSenderInfo(x) == x # NoInfo /\ x # NoResponse /\ x # [error |-> "Invalid email"]

\* Every SenderInfo the worker currently holds: in a handler, in a response,
\* in the store
HeldInfos ==
    { req[r].info : r \in Requests } \cup { req[r].response : r \in Requests }
    \cup { store[k].data : k \in DOMAIN store }

C6_StateInv ==
    \A i \in HeldInfos :
        IsSenderInfo(i) =>
            /\ i.logoUrl = NoUrl => i.logoSource = "favicon"
            /\ i.logoSource \in {"bimi", "favicon"}

GetCachedStep(r) == req[r].pc = "getCached" /\ req'[r].pc # "getCached"

Age(r) == now - store[req[r].email].ts

\* The entry is answered as it is, without lookup
Served(r) ==
    /\ req'[r].pc = "done"
    /\ req'[r].response = store[req[r].email].data
    /\ req'[r].resolves = 0
    /\ store' = store

\* The entry is not answered; it is evicted and resolveLogo is what runs next
Refreshed(r) ==
    /\ req'[r].pc = "bimiFull"
    /\ req'[r].response = NoResponse
    /\ req[r].email \notin DOMAIN store'

\* C9 as stated: an entry written at T is served by every read up to
\* T+TTL-1ms, and a read at T+TTL+1ms or later evicts it and looks up afresh.
C9_Original ==
    [][\A r \in Requests :
         (GetCachedStep(r) /\ req[r].email \in DOMAIN store) =>
             /\ Age(r) <= CACHE_TTL_MS - 1 => Served(r)
             /\ Age(r) >= CACHE_TTL_MS + 1 => Refreshed(r)]_vars

\* C9: provided the storage read succeeds, an entry written at T is
\* served unmodified and without lookup by every read up to T+TTL-1ms, and a
\* read at T+TTL+1ms or later does not return it, evicts it and starts a fresh
\* lookup; when the storage read fails the entry is neither returned nor
\* evicted and a fresh lookup starts whatever its age.
C9_CacheTtl ==
    [][\A r \in Requests :
         (GetCachedStep(r) /\ req[r].email \in DOMAIN store) =>
             IF storageUp
             THEN /\ Age(r) <= CACHE_TTL_MS - 1 => Served(r)
                  /\ Age(r) >= CACHE_TTL_MS + 1 => Refreshed(r)
             ELSE /\ req'[r].pc = "bimiFull"
                  /\ req'[r].response = NoResponse
                  /\ store' = store]_vars

\* a hit at exactly T+TTL-1ms
C9_Witness ==
    \E r \in Requests :
        /\ req[r].pc = "done" /\ req[r].resolves = 0
        /\ req[r].email \in DOMAIN store
        /\ now - store[req[r].email].ts = CACHE_TTL_MS - 1
        /\ req[r].response = store[req[r].email].data

\* The step of handler r that runs setCache and answers
SetCacheStep(r) == req[r].pc = "setCache" /\ req'[r].pc = "done"

Stored(r) == store' = StoreSet(store, req[r].email, [data |-> req[r].info, ts |-> now])

\* A hit answers the cached SenderInfo without any lookup; a miss has made
\* exactly one lookup when it answers
C10_HitAndMiss ==
    \A r \in Requests :
        /\ req[r].resolves <= 1
        /\ req[r].pc \in {"bimiRoot", "globe", "refWait", "favWait", "setCache"}
              => req[r].resolves = 1
        /\ (req[r].pc = "done" /\ IsSenderInfo(req[r].response)) =>
              IF req[r].info = NoInfo THEN req[r].resolves = 0
              ELSE req[r].resolves = 1 /\ req[r].response = req[r].info

\* C10 as stated: on a miss the result of the one lookup is stored under the
\* address and returned, so that the next request is a hit.
C10_Original ==
    /\ []C10_HitAndMiss
    /\ [][\A r \in Requests :
            SetCacheStep(r) => (req'[r].response = req[r].info /\ Stored(r))]_vars

\* C10: on a hit the cached SenderInfo is returned and the Brand
\* Resolver is not invoked; on a miss it is invoked exactly once and its result
\* is returned; the result is stored under the address, stamped with the
\* current time, when the storage write succeeds (a failed write stores
\* nothing), and a request that follows a successful write at once is a hit.
C10_MissStoresAndReturns ==
    /\ []C10_HitAndMiss
    /\ [][\A r \in Requests :
            /\ SetCacheStep(r) =>
                  /\ req'[r].response = req[r].info
                  /\ IF storageUp THEN Stored(r) ELSE store' = store
            /\ (GetCachedStep(r) /\ storageUp /\ req[r].email \in DOMAIN store
                  /\ store[req[r].email].ts = now) => Served(r)]_vars

\* a hit on an entry written at this very instant, under the normalized address
C10_Witness ==
    \E r \in Requests :
        /\ req[r].pc = "done" /\ req[r].resolves = 0 /\ req[r].info = NoInfo
        /\ req[r].email = << "bob", "@", "mail", ".", "example", ".", "co", ".", "uk" >>
        /\ req[r].email \in DOMAIN store
        /\ store[req[r].email].ts = now /\ now > 0
        /\ req[r].response = store[req[r].email].data

(***************************************************************************)
(* Content script: requestSenderInfo and the pending-request map           *)
(* (SpecPage).  The worker is the other end of chrome.runtime.sendMessage: *)
(* it answers with a SenderInfo or an error object, or the call fails.     *)
(***************************************************************************)

MaxCalls == 3

\* The addresses the callers of requestSenderInfo pass
PageEmails ==
    { << "bob", "@", "mail", ".", "example", ".", "co", ".", "uk" >>,
      << "alice", "@", "stripe", ".", "com" >> }

\* What a promise of requestSenderInfo resolves to when there is no SenderInfo
NullValue == [null |-> TRUE]

\* A lookup without the pending-request test
pendingHas_Never(pending, email) == FALSE

\* pendingRequests.has(email)
pendingHas(pending, email) == email \in DOMAIN pending

\* The promises whose message to the worker has not been answered yet
InFlight(email) ==
    { p \in DOMAIN promises : promises[p].inFlight /\ promises[p].email = email }

InFlightFor(email) ==
    IF InFlight(email) = {} THEN 0 ELSE CHOOSE p \in InFlight(email) : TRUE

\* What the callback of chrome.runtime.sendMessage is given: lastError set, an
\* error object, or a SenderInfo for the address.  After the extension context
\* is gone only lastError is possible.
CallbackResults(email) ==
    IF ~runtimeAlive THEN { [lastError |-> TRUE] }
    ELSE { [lastError |-> TRUE], [error |-> "Invalid email"] }
         \cup { info \in SenderInfos : info.fullDomain = emailDomain(email) }

\* removeBanner()
removeBanner ==
    /\ bannersInPage' = IF bannersInPage > 0 THEN bannersInPage - 1 ELSE 0
    /\ currentBannerEmail' = << >>

\* invalidateContext(), apart from contextValid = false: the observer is
\* disconnected and the banner removed
invalidateContext ==
    /\ observer' = [observer EXCEPT !.connected = FALSE]
    /\ removeBanner

\* invalidateContext() when invalid, nothing otherwise
invalidateIf(invalid) ==
    IF invalid THEN invalidateContext
    ELSE UNCHANGED << observer, bannersInPage, currentBannerEmail >>

\* chrome.runtime.sendMessage of requestSenderInfo(email) is reached and throws
sendThrows(email) ==
    contextValid /\ ~pendingHas(pendingRequests, email) /\ ~runtimeAlive

\* requestSenderInfo(email), up to the promise it returns: what it does to the
\* promises, the pending-request map and contextValid
requestSenderInfo(email) ==
       LET id == Len(promises) + 1
           during == InFlightFor(email)
       IN  /\ Len(callers) < MaxCalls
           /\ IF ~contextValid
              THEN /\ promises' = Append(promises,
                          [email |-> email, sent |-> FALSE, inFlight |-> FALSE,
                           settled |-> TRUE, value |-> NullValue])
                   /\ callers' = Append(callers,
                          [email |-> email, promise |-> id, during |-> during])
                   /\ UNCHANGED << pendingRequests, contextValid >>
              ELSE IF pendingHas(pendingRequests, email)
              THEN /\ callers' = Append(callers,
                          [email |-> email, promise |-> pendingRequests[email],
                           during |-> during])
                   /\ UNCHANGED << promises, pendingRequests, contextValid >>
              ELSE IF runtimeAlive
              THEN /\ promises' = Append(promises,
                          [email |-> email, sent |-> TRUE, inFlight |-> TRUE,
                           settled |-> FALSE, value |-> NullValue])
                   /\ callers' = Append(callers,
                          [email |-> email, promise |-> id, during |-> during])
                   /\ pendingRequests' = StoreSet(pendingRequests, email, id)
                   /\ UNCHANGED contextValid
              ELSE /\ promises' = Append(promises,
                          [email |-> email, sent |-> FALSE, inFlight |-> FALSE,
                           settled |-> TRUE, value |-> NullValue])
                   /\ callers' = Append(callers,
                          [email |-> email, promise |-> id, during |-> during])
                   /\ pendingRequests' = StoreSet(pendingRequests, email, id)
                   /\ contextValid' = FALSE

\* requestSenderInfo(email) called by the tooltip or the original-sender block
RequestSenderInfo ==
    \E email \in PageEmails :
       /\ requestSenderInfo(email)
       /\ invalidateIf(sendThrows(email))
       /\ UNCHANGED << runtimeAlive, bannerContent, dom, located, insertions, sent,
                       windowMessages, aiVars, asyncVars, engineVars, rootVars,
                       workerVars >>

\* A response is a failure for the callback of requestSenderInfo
callbackFailed(resp) == resp = [lastError |-> TRUE] \/ resp = [error |-> "Invalid email"]

\* The callback given to chrome.runtime.sendMessage runs for promise p: what
\* it does to the promises, the pending-request map and contextValid
sendMessageCallback(p, resp) ==
    /\ pendingRequests' = StoreRemove(pendingRequests, promises[p].email)
    /\ promises' = [promises EXCEPT ![p].inFlight = FALSE,
                                    ![p].settled = TRUE,
                                    ![p].value = IF callbackFailed(resp) THEN NullValue
                                                 ELSE resp]
    /\ contextValid' = IF callbackFailed(resp) /\ ~runtimeAlive THEN FALSE
                       ELSE contextValid

\* The callback runs for a request of the tooltip or the original-sender block
SendMessageCallback ==
    \E p \in DOMAIN promises :
       /\ promises[p].inFlight
       /\ \E resp \in CallbackResults(promises[p].email) :
             /\ sendMessageCallback(p, resp)
             /\ invalidateIf(callbackFailed(resp) /\ ~runtimeAlive)
       /\ UNCHANGED << callers, runtimeAlive, bannerContent, dom, located, insertions,
                       sent, windowMessages, aiVars, asyncVars, engineVars, rootVars,
                       workerVars >>

\* The extension is reloaded or updated: chrome.runtime.id is gone for this page
RuntimeInvalidated ==
    /\ runtimeAlive
    /\ runtimeAlive' = FALSE
    /\ UNCHANGED << pendingRequests, promises, callers, contextValid,
                    aiVars, asyncVars, engineVars, rootVars, viewVars, bannerVars, workerVars >>

InitPage == PageIdle /\ AiIdle /\ AsyncIdle /\ EngineIdle /\ RootIdle /\ BannerIdle /\ WorkerIdle /\ ViewIdle

NextPage == RequestSenderInfo \/ SendMessageCallback \/ RuntimeInvalidated

SpecPage == InitPage /\ [][NextPage]_vars

MaxMessages == 2

\* Names of the Session objects LanguageModel.create returns, in order
SessionNames ==
    << "session1", "session2", "session3", "session4", "session5", "session6",
       "session7", "session8" >>

SessionIndex(name) == CHOOSE i \in 1..Len(SessionNames) : SessionNames[i] = name

\* msg.data of analyzeEmail messages: missing, without senderEmail, and the
\* fields of one open message
NoData == [none |-> TRUE]

\* A subject line, character by character
Invoice == << "I", "n", "v", "o", "i", "c", "e" >>

AnalyzeData ==
    { NoData,
      [senderEmail |-> "", messageId |-> "18c2a4f1b3d", subject |-> Invoice],
      [senderEmail |-> "bob@mail.example.co.uk", messageId |-> "18c2a4f1b3d",
       subject |-> Invoice] }

\* A test that only catches a missing data object
missingEmailData_OnlyNoData(data) == data = NoData

\* !data || !data.senderEmail
missingEmailData(data) == data = NoData \/ data.senderEmail = ""

\* str.substring(0, n)
substring(str, n) == SubSeq(str, 1, IF Len(str) < n THEN Len(str) ELSE n)

\* cacheKey of the analyzeEmail handler
aiCacheKey(data) ==
    IF data.messageId # "" THEN << "ai", data.messageId >>
    ELSE << "ai", data.senderEmail, substring(data.subject, 80) >>

\* A forced re-analysis that leaves the entry in place
cacheAfterSkip_Keeps(cache, key, skipCache) == cache

\* if (msg.skipCache) aiResultCache.delete(cacheKey)
cacheAfterSkip(cache, key, skipCache) ==
    IF skipCache THEN StoreRemove(cache, key) ELSE cache

NoKey == << >>

\* What LanguageModel.availability() can give: a status, or an exception
Statuses == { "available", "unavailable", "throw" }

\* checkAiAvailable: status !== 'unavailable', false when the call throws
availableFrom(status) == status # "throw" /\ status # "unavailable"

\* What clone.prompt() can resolve to
RawResponses == { "{\"verdict\":\"Reject\"}" }

\* An AI message not yet answered
NewAiMessage(kind, data, key) ==
    [ kind |-> kind, data |-> data, pc |-> "start", key |-> key, session |-> "null",
      clone |-> 0,
      retry |-> FALSE, response |-> NoResponse ]

\* sendResponse(response); the handler ends and its locals are dropped
Respond(rec, response) ==
    [rec EXCEPT !.pc = "done", !.session = "null", !.clone = 0,
                !.response = response]

UnavailableResponse == [unavailable |-> TRUE]

FailedResponse == [verdict |-> "Caution", error |-> TRUE]

\* The handle a prompt is sent to, when it is the Session
promptTarget_Session(session, clone) == [kind |-> "session", id |-> SessionIndex(session)]

\* The handle the analyzeEmail handler prompts: clone.prompt(userPrompt)
promptTarget(session, clone) == [kind |-> "clone", id |-> clone]

\* getAiSession: if (aiSession) return aiSession
sessionExists(cur) == cur # "null"

\* getAiSession() as called by a handler, up to its await: the existing Session
\* is returned and session.clone() is called, or LanguageModel.create() is
\* called.
StartSession(rec, cur) ==
    IF sessionExists(cur)
    THEN [rec EXCEPT !.session = cur, !.pc = "cloneWait"]
    ELSE [rec EXCEPT !.pc = "createWait"]

\* A handler that goes on to the Session whatever the check said
AfterAvailable_IgnoresCheck(rec, available, cur) == StartSession(rec, cur)

\* The handler after `await checkAiAvailable()`
AfterAvailable(rec, available, cur) ==
    IF ~available THEN Respond(rec, UnavailableResponse)
    ELSE StartSession(rec, cur)

\* The catch block of the handler: `if (aiSession)` on the first attempt
retryAllowed(rec, cur) == ~rec.retry /\ cur # "null"

\* A catch block that ends without sendResponse when it does not try again
Catch_NoResponse(rec, cur) ==
    IF retryAllowed(rec, cur)
    THEN [rec EXCEPT !.retry = TRUE, !.session = "null", !.clone = 0,
                     !.pc = "createWait"]
    ELSE [rec EXCEPT !.pc = "done", !.session = "null", !.clone = 0]

\* The catch block: the record of the handler afterwards
Catch(rec, cur) ==
    IF retryAllowed(rec, cur)
    THEN [rec EXCEPT !.retry = TRUE, !.session = "null", !.clone = 0,
                     !.pc = "createWait"]
    ELSE Respond(rec, FailedResponse)

\* The catch block: aiSession afterwards
CatchSession(rec, cur) == IF retryAllowed(rec, cur) THEN "null" ELSE cur

\* checkAiAvailable that never trusts what it has stored
availabilityKnown_Never(memo) == FALSE

\* checkAiAvailable: if (aiAvailable !== null) return aiAvailable
availabilityKnown(memo) == memo # "null"

\* onMessage, action analyzeEmail: validation, the AI result cache, and the
\* async function up to its first await that does not settle at once
AnalyzeEmailWith(data, skipCache) ==
       /\ Len(ai) < MaxMessages
       /\ IF missingEmailData(data)
          THEN /\ ai' = Append(ai, Respond(NewAiMessage("analyzeEmail", data, NoKey),
                                           [error |-> "Missing email data"]))
               /\ UNCHANGED << aiResultCache, aiAvailable >>
          ELSE LET key == aiCacheKey(data)
                   rec == NewAiMessage("analyzeEmail", data, key)
                   cache == cacheAfterSkip(aiResultCache, key, skipCache)
               IN  /\ aiResultCache' = cache
                   /\ IF key \in DOMAIN cache
                      THEN /\ ai' = Append(ai, Respond(rec,
                                       [cache[key] EXCEPT !.cached = TRUE]))
                           /\ UNCHANGED aiAvailable
                      ELSE IF availabilityKnown(aiAvailable)
                      THEN /\ ai' = Append(ai, AfterAvailable(rec, aiAvailable = "true",
                                                              aiSession))
                           /\ UNCHANGED aiAvailable
                      ELSE IF ~hasApi
                      THEN /\ aiAvailable' = "false"
                           /\ ai' = Append(ai, Respond(rec, UnavailableResponse))
                      ELSE /\ ai' = Append(ai, [rec EXCEPT !.pc = "availWait"])
                           /\ UNCHANGED aiAvailable
       /\ UNCHANGED << aiSession, sessions, clones, hasApi, store, now, ticks,
                       storageUp, globeRefBytes, req, pageVars, asyncVars,
                       engineVars, rootVars, viewVars, bannerVars >>

\* The analyzeEmail messages the content script sends in a run with several
\* handlers in flight
AnalyzeEmail ==
    \E data \in AnalyzeData, skipCache \in BOOLEAN : AnalyzeEmailWith(data, skipCache)

\* checkAiAvailable: LanguageModel.availability() settles; the handler goes on
AvailabilityDone(a) ==
    /\ ai[a].kind = "analyzeEmail" /\ ai[a].pc = "availWait"
    /\ \E status \in Statuses :
          /\ aiAvailable' = IF availableFrom(status) THEN "true" ELSE "false"
          /\ ai' = [ai EXCEPT ![a] = AfterAvailable(ai[a], availableFrom(status),
                                                    aiSession)]
    /\ UNCHANGED << aiSession, aiResultCache, sessions, clones, hasApi, store, now,
                    ticks, storageUp, globeRefBytes, req, pageVars, asyncVars,
                    engineVars, rootVars, viewVars, bannerVars >>

\* getAiSession: LanguageModel.create() settles; on success the handler calls
\* session.clone()
CreateDone(a) ==
    /\ ai[a].pc = "createWait"
    /\ Len(sessions) < Len(SessionNames)
    /\ \/ LET name == SessionNames[Len(sessions) + 1]
          IN  /\ sessions' = Append(sessions, [prompts |-> 0])
              /\ aiSession' = name
              /\ ai' = [ai EXCEPT ![a].session = name, ![a].pc = "cloneWait"]
              /\ UNCHANGED aiAvailable
       \/ /\ aiAvailable' = "false"
          /\ ai' = [ai EXCEPT ![a] = Respond(ai[a], IF ai[a].retry THEN FailedResponse
                                                    ELSE UnavailableResponse)]
          /\ UNCHANGED << aiSession, sessions >>
    /\ UNCHANGED << aiResultCache, clones, hasApi, store, now, ticks, storageUp,
                    globeRefBytes, req, pageVars, asyncVars, engineVars, rootVars, viewVars, bannerVars >>

\* session.clone() settles: a Clone, on which the prompt is issued, or an
\* exception (the browser has reclaimed the idle Session)
CloneDone(a) ==
    /\ ai[a].pc = "cloneWait"
    /\ \/ LET c == Len(clones) + 1
              target == promptTarget(ai[a].session, c)
          IN  /\ clones' = Append(clones,
                      [prompts |-> IF target.kind = "clone" THEN 1 ELSE 0,
                       settled |-> FALSE, destroyed |-> FALSE])
              /\ sessions' = IF target.kind = "session"
                             THEN [sessions EXCEPT ![target.id].prompts = @ + 1]
                             ELSE sessions
              /\ ai' = [ai EXCEPT ![a].clone = c, ![a].pc = "promptWait"]
              /\ UNCHANGED aiSession
       \/ /\ ai' = [ai EXCEPT ![a] = Catch(ai[a], aiSession)]
          /\ aiSession' = CatchSession(ai[a], aiSession)
          /\ UNCHANGED << sessions, clones >>
    /\ UNCHANGED << aiAvailable, aiResultCache, hasApi, store, now, ticks, storageUp,
                    globeRefBytes, req, pageVars, asyncVars, engineVars, rootVars, viewVars, bannerVars >>

\* clone.prompt() resolves: the clone is destroyed, the parsed result is cached
\* under the request's key and sent
PromptResolves(a, raw) ==
    LET response == [result |-> raw, cached |-> FALSE, retried |-> ai[a].retry]
    IN  /\ ai[a].pc = "promptWait"
        /\ clones' = [clones EXCEPT ![ai[a].clone].settled = TRUE,
                                    ![ai[a].clone].destroyed = TRUE]
        /\ aiResultCache' = StoreSet(aiResultCache, ai[a].key, response)
        /\ ai' = [ai EXCEPT ![a] = Respond(ai[a], response)]
        /\ UNCHANGED << aiSession, aiAvailable, sessions, hasApi, store, now, ticks,
                        storageUp, globeRefBytes, req, pageVars, asyncVars,
                        engineVars, rootVars, viewVars, bannerVars >>

\* A failed prompt whose fallback answer is stored like a result
PromptRejects_CachesFailure(a) ==
    /\ ai[a].pc = "promptWait"
    /\ clones' = [clones EXCEPT ![ai[a].clone].settled = TRUE]
    /\ ai' = [ai EXCEPT ![a] = Catch(ai[a], aiSession)]
    /\ aiSession' = CatchSession(ai[a], aiSession)
    /\ aiResultCache' = IF retryAllowed(ai[a], aiSession) THEN aiResultCache
                        ELSE StoreSet(aiResultCache, ai[a].key,
                                      [result |-> "failed", cached |-> FALSE,
                                       retried |-> ai[a].retry])
    /\ UNCHANGED << aiAvailable, sessions, hasApi, store, now, ticks, storageUp,
                    globeRefBytes, req, pageVars, asyncVars, engineVars, rootVars, viewVars,
                    bannerVars >>

\* clone.prompt() rejects: the exception is caught, nothing is cached
PromptRejects(a) ==
    /\ ai[a].pc = "promptWait"
    /\ clones' = [clones EXCEPT ![ai[a].clone].settled = TRUE]
    /\ ai' = [ai EXCEPT ![a] = Catch(ai[a], aiSession)]
    /\ aiSession' = CatchSession(ai[a], aiSession)
    /\ UNCHANGED << aiResultCache, aiAvailable, sessions, hasApi, store, now, ticks,
                    storageUp, globeRefBytes, req, pageVars, asyncVars, engineVars,
                    rootVars, viewVars, bannerVars >>

\* clone.prompt() settles, either way
PromptDone(a) ==
    \/ \E raw \in RawResponses : PromptResolves(a, raw)
    \/ PromptRejects(a)

\* onMessage, action checkAiAvailable, up to the await of availability()
CheckAiAvailable ==
    /\ Len(ai) < MaxMessages
    /\ LET rec == NewAiMessage("checkAiAvailable", NoData, NoKey)
       IN  ai' = Append(ai, IF hasApi THEN [rec EXCEPT !.pc = "checkWait"]
                            ELSE Respond(rec, [available |-> FALSE, hasApi |-> FALSE,
                                               status |-> "null"]))
    /\ UNCHANGED << aiSession, aiAvailable, aiResultCache, sessions, clones, hasApi,
                    store, now, ticks, storageUp, globeRefBytes, req, pageVars, asyncVars, engineVars, rootVars, viewVars, bannerVars >>

\* checkAiAvailable message: availability() settles and the answer is sent
CheckDone(a) ==
    /\ ai[a].kind = "checkAiAvailable" /\ ai[a].pc = "checkWait"
    /\ \E status \in Statuses :
          LET st == IF status = "throw" THEN "null" ELSE status
          IN  ai' = [ai EXCEPT ![a] = Respond(ai[a],
                        [available |-> st # "unavailable" /\ st # "null",
                         hasApi |-> TRUE, status |-> st])]
    /\ UNCHANGED << aiSession, aiAvailable, aiResultCache, sessions, clones, hasApi,
                    store, now, ticks, storageUp, globeRefBytes, req, pageVars, asyncVars, engineVars, rootVars, viewVars, bannerVars >>

\* What chrome.storage.local holds when the worker starts: an entry written by
\* an earlier run
SeedStores ==
    { StoreSet(<< >>, << "bob", "@", "mail", ".", "example", ".", "co", ".", "uk" >>,
               cacheEntry(resolveLogoInfo(<< "mail", ".", "example", ".", "co", ".", "uk" >>,
                                          NoUrl, FALSE), 0)) }

InitAi ==
    /\ store \in SeedStores
    /\ now = 0
    /\ ticks = 0
    /\ storageUp \in BOOLEAN
    /\ globeRefBytes = NoBytes
    /\ req = [r \in 1..MaxRequests |-> IdleRequest]
    /\ aiSession = "null"
    /\ aiAvailable = "null"
    /\ aiResultCache = << >>
    /\ ai = << >>
    /\ sessions = << >>
    /\ clones = << >>
    /\ hasApi \in BOOLEAN
    /\ PageIdle /\ AsyncIdle /\ EngineIdle /\ RootIdle /\ BannerIdle /\ ViewIdle

NextAi ==
    \/ AnalyzeEmail
    \/ CheckAiAvailable
    \/ \E a \in DOMAIN ai : AvailabilityDone(a)
    \/ \E a \in DOMAIN ai : CreateDone(a)
    \/ \E a \in DOMAIN ai : CloneDone(a)
    \/ \E a \in DOMAIN ai : PromptDone(a)
    \/ \E a \in DOMAIN ai : CheckDone(a)
    \/ OnInstalled

SpecAi == InitAi /\ [][NextAi]_vars

(***************************************************************************)
(* Properties of the AI analysis (SpecAi)                                  *)
(***************************************************************************)

\* The only step of SpecAi that leaves every message record and every
\* language-model object as it is: the onInstalled listener
OnInstalledStep == ai' = ai /\ sessions' = sessions /\ clones' = clones

AllAnswered == \A a \in DOMAIN ai : ai[a].pc = "done"

LongSubject(last) == [i \in 1..81 |-> IF i = 81 THEN last ELSE "x"]

\* msg.data of the analyzeEmail messages handed to the listener: those of
\* AnalyzeData, and two messages without an identifier whose subjects agree
\* on their first 80 characters
DispatchData ==
    AnalyzeData \cup
    { [senderEmail |-> "bob@mail.example.co.uk", messageId |-> "", subject |-> s] :
      s \in { LongSubject("a"), LongSubject("b") } }

\* What aiResultCache holds from earlier analyses: one result, under the key
\* of one of the messages
CachedResults ==
    { StoreSet(<< >>, aiCacheKey(data),
               [result |-> raw, cached |-> FALSE, retried |-> FALSE]) :
      raw \in RawResponses,
      data \in { d \in DispatchData : ~missingEmailData(d) } }

InitDispatch ==
    /\ store \in { << >> } \cup SeedStores
    /\ now = 0
    /\ ticks = 0
    /\ storageUp = TRUE
    /\ globeRefBytes = NoBytes
    /\ req = [r \in 1..MaxRequests |-> IdleRequest]
    /\ aiSession = "null"
    /\ aiAvailable \in { "null", "true", "false" }
    /\ aiResultCache \in { << >> } \cup CachedResults
    /\ ai = << >>
    /\ sessions = << >>
    /\ clones = << >>
    /\ hasApi \in BOOLEAN
    /\ PageIdle /\ AsyncIdle /\ EngineIdle /\ RootIdle /\ BannerIdle /\ ViewIdle

NextDispatch ==
    \/ \E r \in 1..MaxRequests : GetSenderInfo(r)
    \/ \E data \in DispatchData, skipCache \in BOOLEAN :
          AnalyzeEmailWith(data, skipCache)
    \/ CheckAiAvailable

SpecDispatch == InitDispatch /\ [][NextDispatch]_vars

\* The listener has just been given a getSenderInfo message by handler r
SenderInfoArrived(r) == req'[r] # req[r]

\* The listener has just been given an AI message
AiArrived == Len(ai') = Len(ai) + 1

InvalidAddress(email) == email = << >> \/ ~includes(email, "@")

\* C13: a getSenderInfo message whose address is empty or has no '@', and an
\* analyzeEmail message without data or without senderEmail, are answered at
\* once with an error; the handler ends there, with no lookup, no session, clone
\* or prompt, and no write to either cache.
C13_InvalidInput ==
    [][/\ \A r \in Requests :
             (SenderInfoArrived(r) /\ InvalidAddress(req'[r].email)) =>
                /\ req'[r].pc = "done"
                /\ req'[r].response = [error |-> "Invalid email"]
                /\ req'[r].resolves = 0 /\ req'[r].info = NoInfo
                /\ store' = store /\ aiResultCache' = aiResultCache
       /\ (AiArrived /\ ai'[Len(ai')].kind = "analyzeEmail"
             /\ (ai'[Len(ai')].data = NoData \/ ai'[Len(ai')].data.senderEmail = "")) =>
                /\ ai'[Len(ai')].pc = "done"
                /\ ai'[Len(ai')].response = [error |-> "Missing email data"]
                /\ ~ai'[Len(ai')].retry
                /\ sessions' = sessions /\ clones' = clones
                /\ aiSession' = aiSession /\ aiAvailable' = aiAvailable
                /\ store' = store /\ aiResultCache' = aiResultCache]_vars

C13_Witness ==
    /\ \E r \in Requests :
          /\ req[r].pc = "done" /\ req[r].email = << "bob" >>
          /\ req[r].response = [error |-> "Invalid email"]
    /\ \E a \in DOMAIN ai :
          /\ ai[a].kind = "analyzeEmail" /\ ai[a].data # NoData
          /\ ai[a].response = [error |-> "Missing email data"]
    /\ aiResultCache # << >> /\ store # << >>

(***************************************************************************)
(* Brand resolution never fails outward (Spec)                             *)
(***************************************************************************)

\* The points at which a running getSenderInfo handler waits; each has a
\* continuation that no DNS, favicon-service or storage answer disables
HandlerPcs == { "getCached", "bimiFull", "bimiRoot", "globe", "refWait",
                "favWait", "setCache" }

\* A favicon slot for the domain: a favicon-service URL and a direct
\* /favicon.ico URL
IsFaviconSlot(slot) ==
    /\ slot.googleUrl = googleFaviconUrl(slot.domain) /\ slot.googleUrl # NoUrl
    /\ slot.directUrl = << "https://" >> \o slot.domain \o << "/favicon.ico" >>

HasFaviconSlots(x) ==
    /\ DOMAIN x = { "fullDomain", "rootDomain", "logoUrl", "logoSource",
                    "faviconRootUrl", "faviconRootIsGlobe", "faviconDirectUrl",
                    "favicons" }
    /\ DOMAIN x.favicons = { "sub", "root", "www" }
    /\ \A k \in { "sub", "root", "www" } : IsFaviconSlot(x.favicons[k])

\* C14: whatever the DNS, favicon-service and storage answers, a getSenderInfo
\* handler with a valid address is answered exactly once: nothing is sent while
\* it runs, it is always at a point it continues from, and what it sends at the end is a
\* SenderInfo with the sub, root and www favicon slots, never an error.
C14_NeverFailsOutward ==
    \A r \in Requests :
       (req[r].pc # "idle" /\ ~InvalidAddress(req[r].email)) =>
          /\ req[r].pc # "done" =>
                (req[r].response = NoResponse /\ req[r].pc \in HandlerPcs)
          /\ req[r].pc = "done" => HasFaviconSlots(req[r].response)

C14_Witness ==
    \E r \in Requests :
       /\ req[r].pc = "done" /\ req[r].resolves = 1
       /\ HasFaviconSlots(req[r].response)
       /\ req[r].response.logoUrl = NoUrl
       /\ ~req[r].response.faviconRootIsGlobe
       /\ ~storageUp /\ store = << >>

(***************************************************************************)
(* Availability memo (SpecAi)                                              *)
(***************************************************************************)

\* A step in which the listener receives a message; Arrived is its record
\* as the listener leaves it
AiArrival == Len(ai') = Len(ai) + 1

Arrived == ai'[Len(ai')]

\* The arriving handler has called LanguageModel.availability()
QueryIssued == AiArrival /\ Arrived.pc \in { "availWait", "checkWait" }

ValidAnalyzeArrival ==
    AiArrival /\ Arrived.kind = "analyzeEmail" /\ ~missingEmailData(Arrived.data)

ReportsNoModel(a) ==
    /\ ai[a].pc = "availWait" /\ ai'[a].pc # "availWait"
    /\ aiAvailable' = "false"

\* The check of the arriving handler reports no model at once: the API is
\* missing, or the memo says so
ArrivalReportsNoModel ==
    /\ ValidAnalyzeArrival
    /\ Arrived.key \notin DOMAIN aiResultCache'
    /\ \/ aiAvailable = "false"
       \/ aiAvailable = "null" /\ ~hasApi

NothingCreated ==
    /\ sessions' = sessions /\ clones' = clones /\ aiSession' = aiSession
    /\ \A a \in DOMAIN ai : ai'[a].pc \notin { "createWait", "cloneWait", "promptWait" }
                               \/ ai'[a] = ai[a]

\* C16: when checkAiAvailable() reports no model to an analyzeEmail handler,
\* the handler answers { unavailable: true } in that step and ends; no Session
\* and no Clone is created, no create, clone or prompt call is started.
C16_NoModel ==
    [][/\ \A a \in DOMAIN ai :
             ReportsNoModel(a) =>
                /\ ai'[a].pc = "done" /\ ai'[a].response = UnavailableResponse
                /\ NothingCreated
       /\ ArrivalReportsNoModel =>
             /\ Arrived.pc = "done" /\ Arrived.response = UnavailableResponse
             /\ NothingCreated]_vars

C16_Witness ==
    /\ ~hasApi /\ aiAvailable = "false" /\ sessions = << >> /\ clones = << >>
    /\ Len(ai) = 1 /\ ai[1].kind = "analyzeEmail" /\ ai[1].pc = "done"
    /\ ai[1].response = UnavailableResponse

(***************************************************************************)
(* Session singleton (SpecAi)                                              *)
(***************************************************************************)

\* The Sessions the engine holds: the singleton and the ones running handlers
\* work with
LiveSessions ==
    ({ aiSession } \cup { ai[a].session : a \in DOMAIN ai }) \ { "null" }

SessionCreated == Len(sessions') > Len(sessions)

\* C17: a Session is created only when the engine holds none, and at any time
\* at most one Session created by the engine is live, also when several
\* analyzeEmail handlers call getAiSession concurrently.
C17_Singleton ==
    [][/\ SessionCreated => aiSession = "null"
       /\ Cardinality(LiveSessions') <= 1]_vars

(***************************************************************************)
(* Prompts go to Clones (SpecAi)                                           *)
(***************************************************************************)

\* The handlers waiting for clone.prompt() to settle
Prompting == { a \in DOMAIN ai : ai[a].pc = "promptWait" }

\* C18: no Session is ever prompted; every Clone that exists has been prompted
\* exactly once, by the handler that created it; no two handlers, running
\* together or one after the other, prompt the same Clone.
C18_PromptsOnClones ==
    /\ \A s \in DOMAIN sessions : sessions[s].prompts = 0
    /\ \A c \in DOMAIN clones : clones[c].prompts = 1
    /\ \A a \in Prompting :
          /\ ai[a].clone \in DOMAIN clones
          /\ ~clones[ai[a].clone].settled
          /\ \A b \in Prompting : ai[b].clone = ai[a].clone => a = b
    /\ Cardinality({ c \in DOMAIN clones : ~clones[c].settled }) = Cardinality(Prompting)

C18_Witness ==
    /\ Len(clones) = 3
    /\ Cardinality(Prompting) = 2
    /\ \E a \in Prompting : ai[a].retry
    /\ \E a \in Prompting : ~ai[a].retry
    /\ \E c \in DOMAIN clones : clones[c].settled /\ clones[c].prompts = 1

(***************************************************************************)
(* Clones are destroyed (SpecAi)                                           *)
(***************************************************************************)

AnalyzeMessages == { a \in DOMAIN ai : ai[a].kind = "analyzeEmail" }

\* C20: every request whose first attempt throws makes one retry with a newly
\* created Session, so a request is answered with the Caution failure only
\* after its retry has failed too; over all requests there are at most two
\* prompt attempts each.
C20_OneRetry ==
    /\ \A a \in AnalyzeMessages :
          (ai[a].pc = "done" /\ ai[a].response = FailedResponse) => ai[a].retry
    /\ \A a \in AnalyzeMessages : ai[a].retry => ai[a].pc \in { "createWait", "cloneWait",
                                                               "promptWait", "done" }
    /\ Len(clones) <= 2 * Cardinality(AnalyzeMessages)

(***************************************************************************)
(* Every analyzeEmail message is answered once (SpecAi, SpecAiLive)        *)
(***************************************************************************)

\* A call of handler a on the language model, or its availability query,
\* settles
Settle(a) ==
    \/ AvailabilityDone(a) \/ CreateDone(a) \/ CloneDone(a) \/ PromptDone(a)

\* sendResponse has been called for the record
Answered(rec) == rec.response # NoResponse

\* How far a handler has come: its attempt and the call it waits for
Progress(rec) ==
    IF rec.pc = "done" THEN 9
    ELSE (IF rec.retry THEN 4 ELSE 0)
         + CASE rec.pc = "availWait" -> 1
             [] rec.pc = "createWait" -> 2
             [] rec.pc = "cloneWait" -> 3
             [] rec.pc = "promptWait" -> 4

\* C21: an analyzeEmail handler has sent its response exactly when it has
\* ended; a response once sent is never replaced (nothing is sent twice); a
\* handler that has not answered waits for a call on the model whose settling
\* it can always take up, and every such step brings it nearer to its answer,
\* so when the calls settle every analyzeEmail message is answered.
C21_AnsweredOnce ==
    /\ [](\A a \in AnalyzeMessages :
             /\ Answered(ai[a]) <=> ai[a].pc = "done"
             /\ ~Answered(ai[a]) => ENABLED Settle(a))
    /\ [][\A a \in AnalyzeMessages :
             /\ Answered(ai[a]) => ai'[a] = ai[a]
             /\ ai'[a] # ai[a] => Progress(ai'[a]) > Progress(ai[a])]_vars

C21_Witness ==
    /\ Len(ai) = 2 /\ AllAnswered /\ AnalyzeMessages = { 1, 2 }
    /\ ai[1].retry /\ ai[1].response = FailedResponse
    /\ ai[2].retry /\ "result" \in DOMAIN ai[2].response
    /\ ai[2].response.retried

(***************************************************************************)
(* The AI result cache (SpecDispatch)                                      *)
(***************************************************************************)

\* The key of a request: its message identifier, or its sender and the first
\* 80 characters of its subject when it has no identifier
RequestKey(data) ==
    IF data.messageId # "" THEN << "ai", data.messageId >>
    ELSE << "ai", data.senderEmail,
            [i \in 1..(IF Len(data.subject) < 80 THEN Len(data.subject) ELSE 80) |->
                data.subject[i]] >>

FromCache(response) == "cached" \in DOMAIN response /\ response.cached

\* C22: an analyzeEmail message is answered from the AI result cache, at once
\* and with no Session, Clone or prompt, exactly when skipCache is false and
\* the cache holds an entry under the request's key; with skipCache true the
\* entry under that key is removed first and the answer is not the cached one.
C22_CacheHit ==
    [][\A data \in DispatchData, skipCache \in BOOLEAN :
          (~missingEmailData(data) /\ AnalyzeEmailWith(data, skipCache)) =>
             LET key == RequestKey(data)
                 hit == ~skipCache /\ key \in DOMAIN aiResultCache
             IN  /\ hit =>
                       /\ Arrived.pc = "done"
                       /\ Arrived.response = [aiResultCache[key] EXCEPT !.cached = TRUE]
                       /\ aiResultCache' = aiResultCache
                       /\ NothingCreated
                 /\ ~hit =>
                       /\ ~FromCache(Arrived.response)
                       /\ key \notin DOMAIN aiResultCache'
                       /\ \A k \in DOMAIN aiResultCache \ { key } :
                             /\ k \in DOMAIN aiResultCache'
                             /\ aiResultCache'[k] = aiResultCache[k]]_vars

C22_Witness ==
    /\ Len(ai) = 2
    /\ ai[1].data = [senderEmail |-> "bob@mail.example.co.uk", messageId |-> "",
                     subject |-> LongSubject("b")]
    /\ FromCache(ai[1].response)
    /\ ai[2].data = ai[1].data /\ ai[2].pc = "availWait"
    /\ aiResultCache = << >>

(***************************************************************************)
(* Content script: requestAiAnalysis and its 30 second timer               *)
(* (SpecAiRequest).  Each call is one record in aiRequests.                *)
(***************************************************************************)

\* What the sendMessage callback of an analyzeEmail message can be given
AiResponses ==
    { [lastError |-> TRUE], UnavailableResponse, FailedResponse,
      [error |-> "Missing email data"], [verdict |-> "Ok"], [verdict |-> "Reject"],
      [parseError |-> TRUE] }

TimedOut == [timeout |-> TRUE]

\* A callback that resolves whatever the timer has done
callbackDropped_Never(settled) == FALSE

\* The callback of requestAiAnalysis: if (settled) return
callbackDropped(settled) == settled

\* The callback of requestAiAnalysis: what it resolves with
aiResolveValue(resp) ==
    IF "lastError" \in DOMAIN resp \/ "unavailable" \in DOMAIN resp THEN NullValue
    ELSE resp

\* updateAiSection: the banner row shown for a result
aiBannerRow(result) ==
    IF result = NullValue \/ "parseError" \in DOMAIN result
    THEN "AI analysis was inconclusive"
    ELSE IF "timeout" \in DOMAIN result THEN "AI analysis timed out"
    ELSE IF "verdict" \in DOMAIN result /\ result.verdict \in { "Ok", "Caution", "Reject" }
    THEN result.verdict
    ELSE "Caution"

\* requestAiAnalysis(emailData) is called
RequestAiAnalysis ==
    /\ Len(aiRequests) < MaxCalls
    /\ aiRequests' = Append(aiRequests,
          IF ~contextValid
          THEN [sent |-> FALSE, settled |-> FALSE, timer |-> "none", answered |-> FALSE,
                resolves |-> 1, value |-> NullValue]
          ELSE IF runtimeAlive
          THEN [sent |-> TRUE, settled |-> FALSE, timer |-> "armed", answered |-> FALSE,
                resolves |-> 0, value |-> NoResponse]
          ELSE [sent |-> FALSE, settled |-> TRUE, timer |-> "cleared",
                answered |-> FALSE, resolves |-> 1, value |-> NullValue])
    /\ UNCHANGED << pageVars, headerRequestId, pendingHeaderRequests, headerRequests,
                    aiVars, engineVars, rootVars, viewVars, bannerVars, workerVars >>

\* The callback given to sendMessage runs with the worker's response
AiCallback ==
    \E c \in DOMAIN aiRequests, resp \in AiResponses :
       LET r == aiRequests[c]
       IN  /\ r.sent /\ ~r.answered
           /\ aiRequests' =
                 [aiRequests EXCEPT ![c] =
                    IF callbackDropped(r.settled)
                    THEN [r EXCEPT !.answered = TRUE]
                    ELSE [r EXCEPT !.answered = TRUE, !.settled = TRUE,
                                   !.timer = IF @ = "armed" THEN "cleared" ELSE @,
                                   !.resolves = @ + 1,
                                   !.value = IF r.resolves = 0 THEN aiResolveValue(resp)
                                             ELSE @]]
           /\ UNCHANGED << pageVars, headerRequestId, pendingHeaderRequests,
                           headerRequests, aiVars, engineVars, rootVars, viewVars, bannerVars, workerVars >>

\* The 30 second timer of a call fires
AiTimer ==
    \E c \in DOMAIN aiRequests :
       LET r == aiRequests[c]
       IN  /\ r.timer = "armed"
           /\ aiRequests' =
                 [aiRequests EXCEPT ![c] =
                    IF r.settled THEN [r EXCEPT !.timer = "fired"]
                    ELSE [r EXCEPT !.timer = "fired", !.settled = TRUE,
                                   !.resolves = @ + 1, !.value = TimedOut]]
           /\ UNCHANGED << pageVars, headerRequestId, pendingHeaderRequests,
                           headerRequests, aiVars, engineVars, rootVars, viewVars, bannerVars, workerVars >>

InitAiRequest ==
    /\ pendingRequests = << >> /\ promises = << >> /\ callers = << >>
    /\ contextValid \in BOOLEAN
    /\ runtimeAlive = TRUE
    /\ AiIdle /\ AsyncIdle /\ EngineIdle /\ RootIdle /\ BannerIdle /\ WorkerIdle /\ ViewIdle

NextAiRequest == RequestAiAnalysis \/ AiCallback \/ AiTimer \/ RuntimeInvalidated

SpecAiRequest == InitAiRequest /\ [][NextAiRequest]_vars

\* C23: the promise of requestAiAnalysis is resolved exactly once: with the
\* timed-out result when the 30 second timer fires before a response, with the
\* response otherwise; the timed-out result differs from what is delivered for
\* an unavailable model or an error, also in what the banner shows; a response
\* that arrives after the timer has fired changes nothing.
C23_AiTimeout ==
    /\ [](\A c \in DOMAIN aiRequests :
             LET r == aiRequests[c]
             IN  /\ r.resolves <= 1
                 /\ (r.answered \/ r.timer = "fired" \/ ~r.sent) => r.resolves = 1
                 /\ r.resolves = 0 => (r.timer = "armed" /\ r.value = NoResponse)
                 /\ r.value = TimedOut => r.timer = "fired"
                 /\ r.timer = "cleared" /\ r.sent =>
                       \E resp \in AiResponses : r.value = aiResolveValue(resp))
    /\ [][\A c \in DOMAIN aiRequests :
             LET r == aiRequests[c]
             IN  /\ r.resolves = 1 =>
                       (aiRequests'[c].value = r.value /\ aiRequests'[c].resolves = 1)
                 /\ (r.resolves = 0 /\ aiRequests'[c].timer = "fired") =>
                       aiRequests'[c].value = TimedOut
                 /\ (r.resolves = 0 /\ aiRequests'[c].answered) =>
                       /\ aiRequests'[c].value # TimedOut
                       /\ aiRequests'[c].timer = "cleared"]_vars
    /\ [](\A resp \in AiResponses :
             /\ aiResolveValue(resp) # TimedOut
             /\ aiBannerRow(aiResolveValue(resp)) # aiBannerRow(TimedOut))

C23_Witness ==
    \E c \in DOMAIN aiRequests :
       /\ aiRequests[c].value = TimedOut /\ aiRequests[c].answered
       /\ aiRequests[c].resolves = 1

(***************************************************************************)
(* Content script and page script: fetchEmailHeaders (SpecHeaders).        *)
(* Each call is one record in headerRequests.                              *)
(***************************************************************************)

MaxFetches == 2

\* The tokens the regular expressions of either script can find in a response
HeaderAuths ==
    { [spf |-> ABSENT, dkim |-> ABSENT, dmarc |-> ABSENT, originalSender |-> FALSE],
      [spf |-> "pass", dkim |-> "pass", dmarc |-> "pass", originalSender |-> FALSE],
      [spf |-> "fail", dkim |-> ABSENT, dmarc |-> ABSENT, originalSender |-> FALSE] }

\* What fetch() of the view=om page can give page-fetch.js: an exception, a
\* status that is not ok, raw headers (with or without an
\* Authentication-Results line) or an HTML page (with or without an
\* X-Original-Sender)
HttpResponses ==
    { [kind |-> k, authLine |-> FALSE, auth |-> NoAuth] : k \in { "throw", "http" } }
    \cup { [kind |-> "raw", authLine |-> l, auth |-> a] :
             l \in BOOLEAN, a \in HeaderAuths }
    \cup { [kind |-> "html", authLine |-> FALSE,
            auth |-> [a EXCEPT !.originalSender = o]] :
             a \in HeaderAuths, o \in BOOLEAN }

HeaderError(text) ==
    [kind |-> "error", error |-> text, authLine |-> FALSE, auth |-> NoAuth]

\* page-fetch.js: the gsi-headers-result message posted for a response
pageFetch(resp) ==
    IF resp.kind = "throw" THEN HeaderError("fetch failed")
    ELSE IF resp.kind = "http" THEN HeaderError("HTTP")
    ELSE IF resp.kind = "html"
    THEN IF resp.auth.spf # ABSENT \/ resp.auth.dkim # ABSENT
            \/ resp.auth.dmarc # ABSENT \/ resp.auth.originalSender
         THEN [kind |-> "authData", error |-> "", authLine |-> FALSE, auth |-> resp.auth]
         ELSE HeaderError("no auth data in HTML")
    ELSE [kind |-> "headers", error |-> "", authLine |-> resp.authLine,
          auth |-> resp.auth]

\* createSecuritySection: what the section shows for a fetchEmailHeaders result
sectionStatus(result) ==
    IF result.kind = "error" THEN "Unable to check"
    ELSE LET auth == IF result.kind = "authData" THEN result.auth
                     ELSE parseAuthResults(result)
         IN  IF auth = NoAuth THEN "No auth results found" ELSE "rows"

\* A test that finds every request pending
stillPending_Always(pending, id) == TRUE

\* pendingHeaderRequests.has(requestId), pendingHeaderRequests.get(requestId)
stillPending(pending, id) == id \in pending

\* An identifier that is the same for every request
nextRequestId_Constant(last) == 1

\* ++headerRequestId
nextRequestId(last) == last + 1

\* fetchEmailHeaders(messageId) is called: the resolver is stored under a new
\* requestId and the gsi-fetch-headers message is posted to the window
FetchEmailHeaders ==
    /\ Len(headerRequests) < MaxFetches
    /\ headerRequestId' = nextRequestId(headerRequestId)
    /\ pendingHeaderRequests' = pendingHeaderRequests \cup { nextRequestId(headerRequestId) }
    /\ headerRequests' = Append(headerRequests,
          [id |-> nextRequestId(headerRequestId), timer |-> "armed", posted |-> FALSE,
           resp |-> NoResponse, resolves |-> 0, value |-> NoResponse])
    /\ windowMessages' = Append(windowMessages,
          [type |-> "gsi-fetch-headers", requestId |-> nextRequestId(headerRequestId),
           origin |-> 0, resp |-> NoResponse, result |-> NoResponse,
           handled |-> FALSE])
    /\ UNCHANGED << aiRequests, dom, located, observer, insertions, sent, pageVars,
                    aiVars, engineVars, rootVars, bannerVars, workerVars >>

\* page-fetch.js: the listener has taken a gsi-fetch-headers message, its
\* fetch settles with resp and it posts the gsi-headers-result with the
\* requestId of the message
PageFetchSettlesWith(resp) ==
    \E m \in DOMAIN windowMessages :
       /\ windowMessages[m].type = "gsi-fetch-headers"
       /\ ~windowMessages[m].handled
       /\ windowMessages' =
             Append([windowMessages EXCEPT ![m].handled = TRUE],
                    [type |-> "gsi-headers-result",
                     requestId |-> windowMessages[m].requestId,
                     origin |-> m, resp |-> resp, result |-> pageFetch(resp),
                     handled |-> FALSE])
       /\ UNCHANGED << asyncVars, dom, located, observer, insertions, sent, pageVars,
                       aiVars, engineVars, rootVars, bannerVars, workerVars >>

\* One response for each way through page-fetch.js: the fetch throws, the
\* status is not ok, an HTML page with and without authentication data, and
\* raw headers
ProtocolResponses ==
    { resp \in HttpResponses :
        \/ resp.kind \in { "throw", "http" }
        \/ /\ resp.auth.spf # "fail"
           /\ ~resp.auth.originalSender
           /\ resp.kind = "raw" => (resp.authLine /\ resp.auth.spf = "pass") }

\* The fetchEmailHeaders call whose resolver pendingHeaderRequests holds
\* under id: the last one that stored under it
resolverOf(id) ==
    CHOOSE h \in DOMAIN headerRequests :
       /\ headerRequests[h].id = id
       /\ \A g \in DOMAIN headerRequests : headerRequests[g].id = id => g <= h

\* The message listener of the content script takes a gsi-headers-result
HeadersResultMessage ==
    \E m \in DOMAIN windowMessages :
       LET msg == windowMessages[m]
           h == resolverOf(msg.requestId)
           r == headerRequests[h]
       IN  /\ msg.type = "gsi-headers-result"
           /\ ~msg.handled
           /\ windowMessages' = [windowMessages EXCEPT ![m].handled = TRUE]
           /\ IF stillPending(pendingHeaderRequests, msg.requestId)
              THEN /\ pendingHeaderRequests' = pendingHeaderRequests \ { msg.requestId }
                   /\ headerRequests' =
                         [headerRequests EXCEPT ![h] =
                            [r EXCEPT !.posted = TRUE, !.resp = msg.resp,
                                      !.resolves = @ + 1,
                                      !.value = IF r.resolves = 0 THEN msg.result
                                                ELSE @]]
              ELSE /\ headerRequests' =
                         [headerRequests EXCEPT ![h] =
                            [r EXCEPT !.posted = TRUE, !.resp = msg.resp]]
                   /\ UNCHANGED pendingHeaderRequests
           /\ UNCHANGED << aiRequests, headerRequestId, dom, located, observer,
                           insertions, sent, pageVars, aiVars, engineVars, rootVars,
                           bannerVars, workerVars >>

\* The 10 second timer of a call fires
HeaderTimerFires ==
    \E h \in DOMAIN headerRequests :
       LET r == headerRequests[h]
       IN  /\ r.timer = "armed"
           /\ IF stillPending(pendingHeaderRequests, r.id)
              THEN /\ pendingHeaderRequests' = pendingHeaderRequests \ { r.id }
                   /\ headerRequests' =
                         [headerRequests EXCEPT ![h] =
                            [r EXCEPT !.timer = "fired", !.resolves = @ + 1,
                                      !.value = IF r.resolves = 0
                                                THEN HeaderError("timeout") ELSE @]]
              ELSE /\ headerRequests' = [headerRequests EXCEPT ![h].timer = "fired"]
                   /\ UNCHANGED pendingHeaderRequests
           /\ UNCHANGED << aiRequests, headerRequestId, pageVars, aiVars, engineVars, rootVars, viewVars,
                           bannerVars, workerVars >>

InitHeaders == ExtraIdle /\ RootIdle /\ BannerIdle /\ WorkerIdle

NextHeaders ==
    \/ FetchEmailHeaders
    \/ \E resp \in ProtocolResponses : PageFetchSettlesWith(resp)
    \/ HeadersResultMessage
    \/ HeaderTimerFires

SpecHeaders == InitHeaders /\ [][NextHeaders]_vars

\* C24: the promise of fetchEmailHeaders is resolved exactly once: with the
\* result page-fetch.js posts when it comes before the 10 second timer fires,
\* with the error 'timeout' otherwise; the entry in pendingHeaderRequests is
\* there exactly until then; a result that comes after the timeout is ignored.
C24_HeaderFetchOnce ==
    /\ [](\A h \in DOMAIN headerRequests :
             LET r == headerRequests[h]
             IN  /\ r.resolves <= 1
                 /\ r.id \in pendingHeaderRequests <=> r.resolves = 0
                 /\ (r.posted \/ r.timer = "fired") => r.resolves = 1
                 /\ r.value = HeaderError("timeout") => r.timer = "fired"
                 /\ (r.resolves = 1 /\ r.value # HeaderError("timeout")) =>
                       (r.posted /\ r.value = pageFetch(r.resp)))
    /\ [][\A h \in DOMAIN headerRequests :
             LET r == headerRequests[h]
             IN  /\ r.resolves = 1 =>
                       /\ headerRequests'[h].value = r.value
                       /\ headerRequests'[h].resolves = 1
                 /\ (r.resolves = 0 /\ headerRequests'[h].timer = "fired") =>
                       headerRequests'[h].value = HeaderError("timeout")
                 /\ (r.resolves = 0 /\ headerRequests'[h].posted) =>
                       headerRequests'[h].value = pageFetch(headerRequests'[h].resp)]_vars

C24_Witness ==
    /\ Len(headerRequests) = 2 /\ pendingHeaderRequests = { }
    /\ headerRequests[1].value = HeaderError("timeout") /\ headerRequests[1].posted
    /\ headerRequests[2].value.kind = "headers" /\ headerRequests[2].timer = "fired"

\* The fetch succeeded and its text holds no authentication line or token
FetchedWithoutAuth(resp) ==
    /\ resp.kind \in { "raw", "html" }
    /\ \/ resp.kind = "raw" /\ ~resp.authLine
       \/ resp.auth.spf = ABSENT /\ resp.auth.dkim = ABSENT /\ resp.auth.dmarc = ABSENT

\* C25: when the fetch succeeds and the response holds no authentication line
\* or token, raw or HTML, the security section shows "No auth results found"
\* and not an error; it shows the error only when the fetch failed or timed
\* out.
C25_NoResultIsNotError ==
    \A h \in DOMAIN headerRequests :
       LET r == headerRequests[h]
       IN  (r.resolves = 1 /\ r.posted /\ r.value = pageFetch(r.resp)) =>
              /\ FetchedWithoutAuth(r.resp) =>
                    sectionStatus(r.value) = "No auth results found"
              /\ sectionStatus(r.value) = "Unable to check" =>
                    r.resp.kind \in { "throw", "http" }

(***************************************************************************)
(* parseAiResult on bounded model outputs (SpecParse).  A model output is  *)
(* a sequence of tokens: punctuation, markdown fences and quoted strings;  *)
(* the content of a string is a sequence of words and spaces.              *)
(***************************************************************************)

MaxTokens == 5

Punct(c) == [k |-> c, v |-> << >>]

Str(content) == [k |-> "str", v |-> content]

OutputTokens ==
    { Punct("{"), Punct("}"), Punct(":"), Punct("fence"),
      Str(<< "verdict" >>), Str(<< "VERDICT" >>), Str(<< "Reject" >>),
      Str(<< " ", "SAFE" >>), Str(<< "maybe" >>) }

ModelOutputs == UNION { [1..n -> OutputTokens] : n \in 0..MaxTokens }

\* normalizeVerdict; "null" is null
normalizeVerdict(v) ==
    IF v = << >> THEN "null"
    ELSE LET lower == toLowerCase(trim(v))
         IN  IF lower \in { << "ok" >>, << "safe" >> } THEN "Ok"
             ELSE IF lower \in { << "caution" >>, << "warning" >>, << "suspicious" >> }
             THEN "Caution"
             ELSE IF lower \in { << "reject" >>, << "danger" >>, << "dangerous" >>,
                                 << "phishing" >> }
             THEN "Reject"
             ELSE "null"

\* the two replace calls that delete the markdown fences, then trim; a fence
\* (three backquotes with an optional json tag) is the token "fence"
stripFences(text) == SelectSeq(text, LAMBDA tok : tok.k # "fence")

\* JSON.parse of a value that starts at token i: ok says whether one was read,
\* next is the token after it, verdict is what `.verdict` of the value gives
\* when it is a string (<< >> otherwise)
RECURSIVE jsonValue(_, _)
jsonValue(s, i) ==
    LET fail == [ok |-> FALSE, next |-> i, isString |-> FALSE, string |-> << >>,
                 verdict |-> << >>]
    IN  IF i > Len(s) THEN fail
        ELSE IF s[i].k = "str"
        THEN [ok |-> TRUE, next |-> i + 1, isString |-> TRUE, string |-> s[i].v,
              verdict |-> << >>]
        ELSE IF s[i].k # "{" THEN fail
        ELSE IF i + 1 <= Len(s) /\ s[i + 1].k = "}"
        THEN [ok |-> TRUE, next |-> i + 2, isString |-> FALSE, string |-> << >>,
              verdict |-> << >>]
        ELSE IF i + 2 <= Len(s) /\ s[i + 1].k = "str" /\ s[i + 2].k = ":"
        THEN LET member == jsonValue(s, i + 3)
             IN  IF member.ok /\ member.next <= Len(s) /\ s[member.next].k = "}"
                 THEN [ok |-> TRUE, next |-> member.next + 1, isString |-> FALSE,
                       string |-> << >>,
                       verdict |-> IF s[i + 1].v = << "verdict" >> /\ member.isString
                                   THEN member.string ELSE << >>]
                 ELSE fail
        ELSE fail

\* JSON.parse(cleaned): the whole text is one value
jsonParse(cleaned) ==
    LET value == jsonValue(cleaned, 1)
    IN  [value EXCEPT !.ok = value.ok /\ value.next = Len(cleaned) + 1]

\* cleaned.match(/"verdict"\s*:\s*"([^"]+)"/i): the captured string of the
\* first match, << >> when there is none
verdictMatch(cleaned) ==
    LET hits == { i \in 1..Len(cleaned) :
                    /\ i + 2 <= Len(cleaned)
                    /\ cleaned[i].k = "str"
                    /\ toLowerCase(cleaned[i].v) = << "verdict" >>
                    /\ cleaned[i + 1].k = ":"
                    /\ cleaned[i + 2].k = "str" /\ cleaned[i + 2].v # << >> }
    IN  IF hits = { } THEN << >>
        ELSE cleaned[(CHOOSE i \in hits : \A j \in hits : i <= j) + 2].v

\* parseAiResult: the verdict and whether parseError is set
parseAiResult(text) ==
    LET cleaned == stripFences(text)
        obj == jsonParse(cleaned)
    IN  IF obj.ok
        THEN [verdict |-> IF normalizeVerdict(obj.verdict) # "null"
                          THEN normalizeVerdict(obj.verdict) ELSE "Caution",
              parseError |-> FALSE]
        ELSE IF normalizeVerdict(verdictMatch(cleaned)) # "null"
        THEN [verdict |-> normalizeVerdict(verdictMatch(cleaned)), parseError |-> FALSE]
        ELSE [verdict |-> "null", parseError |-> TRUE]

InitParse ==
    /\ modelOutput \in ModelOutputs
    /\ parsed = << >>
    /\ promptText = << >> /\ sanitized = << >>
    /\ emailData = << >> /\ userPrompt = << >>
    /\ PageIdle /\ AiIdle /\ AsyncIdle /\ RootIdle /\ BannerIdle /\ WorkerIdle /\ ViewIdle

ParseAiResult ==
    /\ parsed = << >>
    /\ parsed' = << parseAiResult(modelOutput) >>
    /\ UNCHANGED << modelOutput, promptText, sanitized, emailData, userPrompt,
                    pageVars, aiVars, asyncVars, rootVars, viewVars, bannerVars, workerVars >>

NextParse == ParseAiResult

SpecParse == InitParse /\ [][NextParse]_vars

\* The verdict the JSON path recovers from the output, "null" when it recovers
\* none
JsonVerdict(text) ==
    IF jsonParse(stripFences(text)).ok
    THEN normalizeVerdict(jsonParse(stripFences(text)).verdict) ELSE "null"

\* The verdict the regex path recovers from the output
RegexVerdict(text) == normalizeVerdict(verdictMatch(stripFences(text)))

\* C26: parseAiResult sets parseError, with no verdict, exactly when neither
\* the JSON path nor the regex path recovers a verdict from the output; when
\* parseError is null the verdict is Ok, Caution or Reject and is one that a
\* path recovered from the output.
C26_ParseError ==
    parsed # << >> =>
       LET r == parsed[1]
           recovered == { JsonVerdict(modelOutput), RegexVerdict(modelOutput) } \ { "null" }
       IN  /\ r.parseError <=> recovered = { }
           /\ r.parseError => r.verdict = "null"
           /\ ~r.parseError => r.verdict \in recovered

(***************************************************************************)
(* sanitizeForPrompt on bounded texts (SpecSanitize).  A text is a         *)
(* sequence of one-character strings.                                      *)
(***************************************************************************)

MaxFragments == 3

\* \s and \w of the regular expressions, over the characters of the model
Whitespace == { " ", "\t", "\n" }

WordChars ==
    { "a", "b", "c", "d", "e", "f", "g", "h", "i", "j", "k", "l", "m", "n", "o",
      "p", "q", "r", "s", "t", "u", "v", "w", "x", "y", "z", "U", "S", "_",
      "0", "1", "2", "3", "4", "5", "6", "7", "8", "9" }

Delimiters == { "{", "}", "[", "]" }

\* \b at position i: exactly one of the characters on its two sides is a word
\* character
wordBoundary(s, i) ==
    (i > 1 /\ i - 1 <= Len(s) /\ s[i - 1] \in WordChars)
       # (i >= 1 /\ i <= Len(s) /\ s[i] \in WordChars)

\* the lower-case word w is at position i, whatever the case (flag i)
matchesAt(s, i, w) ==
    /\ i + Len(w) - 1 <= Len(s)
    /\ \A k \in 1..Len(w) : LowerToken(s[i + k - 1]) = w[k]

\* where a greedy run of whitespace that starts at i ends
spaceEnd(s, i) ==
    CHOOSE j \in i..(Len(s) + 1) :
        /\ \A k \in i..(j - 1) : s[k] \in Whitespace
        /\ j = Len(s) + 1 \/ s[j] \notin Whitespace

\* The items of a pattern: one of several words, whitespace (\s* or \s+), \b
Words(set) == [t |-> "words", words |-> set, min |-> 0]

Space(min) == [t |-> "space", words |-> { }, min |-> min]

Boundary == [t |-> "boundary", words |-> { }, min |-> 0]

\* The position after the match of pat[k..] at i, 0 when it does not match
RECURSIVE matchFrom(_, _, _, _)
matchFrom(pat, k, s, i) ==
    IF k > Len(pat) THEN i
    ELSE IF pat[k].t = "words"
    THEN LET fits == { x \in pat[k].words : matchesAt(s, i, x) }
         IN  IF fits = { } THEN 0
             ELSE LET longest == CHOOSE x \in fits : \A y \in fits : Len(y) <= Len(x)
                  IN  matchFrom(pat, k + 1, s, i + Len(longest))
    ELSE IF pat[k].t = "space"
    THEN IF spaceEnd(s, i) - i < pat[k].min THEN 0
         ELSE matchFrom(pat, k + 1, s, spaceEnd(s, i))
    ELSE IF wordBoundary(s, i) THEN matchFrom(pat, k + 1, s, i) ELSE 0

\* The position after the match at i of the first alternative that matches
RECURSIVE matchAny(_, _, _, _)
matchAny(pats, n, s, i) ==
    IF n > Len(pats) THEN 0
    ELSE IF matchFrom(pats[n], 1, s, i) # 0 THEN matchFrom(pats[n], 1, s, i)
    ELSE matchAny(pats, n + 1, s, i)

Roles ==
    { << "s", "y", "s", "t", "e", "m" >>,
      << "a", "s", "s", "i", "s", "t", "a", "n", "t" >>,
      << "u", "s", "e", "r" >> }

\* /\b(system|assistant|user)\s*:/gi
RolePattern == << << Boundary, Words(Roles), Space(0), Words({ << ":" >> }) >> >>

Verbs ==
    { << "i", "g", "n", "o", "r", "e" >>,
      << "d", "i", "s", "r", "e", "g", "a", "r", "d" >>,
      << "f", "o", "r", "g", "e", "t" >>,
      << "o", "v", "e", "r", "r", "i", "d", "e" >> }

Earlier ==
    { << "p", "r", "e", "v", "i", "o", "u", "s" >>,
      << "p", "r", "i", "o", "r" >>,
      << "a", "b", "o", "v", "e" >>,
      << "e", "a", "r", "l", "i", "e", "r" >> }

Targets ==
    { << "i", "n", "s", "t", "r", "u", "c", "t", "i", "o", "n" >>,
      << "i", "n", "s", "t", "r", "u", "c", "t", "i", "o", "n", "s" >>,
      << "p", "r", "o", "m", "p", "t" >>,
      << "p", "r", "o", "m", "p", "t", "s" >>,
      << "r", "u", "l", "e" >>,
      << "r", "u", "l", "e", "s" >>,
      << "c", "o", "n", "t", "e", "x", "t" >> }

\* /(ignore|disregard|forget|override)\s+(all\s+)?(previous|prior|above|earlier)
\*  \s+(instructions?|prompts?|rules?|context)/gi
OverridePattern ==
    << << Words(Verbs), Space(1), Words({ << "a", "l", "l" >> }), Space(1),
          Words(Earlier), Space(1), Words(Targets) >>,
       << Words(Verbs), Space(1), Words(Earlier), Space(1), Words(Targets) >> >>

\* /(new\s+instruction|you\s+are\s+now|respond\s+with
\*  |always\s+(say|reply|answer|respond))\b/gi
PersonaPattern ==
    << << Words({ << "n", "e", "w" >> }), Space(1), Words({ << "i", "n", "s", "t", "r", "u", "c", "t", "i", "o", "n" >> }), Boundary >>,
       << Words({ << "y", "o", "u" >> }), Space(1), Words({ << "a", "r", "e" >> }), Space(1),
          Words({ << "n", "o", "w" >> }), Boundary >>,
       << Words({ << "r", "e", "s", "p", "o", "n", "d" >> }), Space(1), Words({ << "w", "i", "t", "h" >> }), Boundary >>,
       << Words({ << "a", "l", "w", "a", "y", "s" >> }), Space(1),
          Words({ << "s", "a", "y" >>, << "r", "e", "p", "l", "y" >>, << "a", "n", "s", "w", "e", "r" >>, << "r", "e", "s", "p", "o", "n", "d" >> }),
          Boundary >> >>

Removed == << "[", "r", "e", "m", "o", "v", "e", "d", "]" >>

\* the marker; its first character is U+2026, written "ellipsis"
Truncated == << "ellipsis", "[", "t", "r", "u", "n", "c", "a", "t", "e", "d", "]" >>

\* s.replace(pattern, replacement) with flag g, from position i on; a role
\* match is replaced by '$1 -', the others by '[removed]'
RECURSIVE replaceAll(_, _, _, _)
replaceAll(pats, role, s, i) ==
    IF i > Len(s) THEN << >>
    ELSE LET e == matchAny(pats, 1, s, i)
         IN  IF e = 0 THEN << s[i] >> \o replaceAll(pats, role, s, i + 1)
             ELSE IF role
             THEN LET word == CHOOSE x \in Roles : matchesAt(s, i, x)
                  IN  SubSeq(s, i, i + Len(word) - 1) \o << " ", "-" >>
                         \o replaceAll(pats, role, s, e)
             ELSE Removed \o replaceAll(pats, role, s, e)

\* how many characters of the set follow one another from position i on
RECURSIVE runLength(_, _, _)
runLength(s, i, set) ==
    IF i > Len(s) \/ s[i] \notin set THEN 0 ELSE 1 + runLength(s, i + 1, set)

\* s.replace(/c{min,}/g, replacement) for a character class c
RECURSIVE collapseRuns(_, _, _, _, _)
collapseRuns(s, i, set, min, replacement) ==
    IF i > Len(s) THEN << >>
    ELSE IF runLength(s, i, set) >= min
    THEN replacement \o collapseRuns(s, i + runLength(s, i, set), set, min, replacement)
    ELSE << s[i] >> \o collapseRuns(s, i + 1, set, min, replacement)

\* the truncation of sanitizeForPrompt
truncate(s, maxLength) ==
    IF Len(s) > maxLength THEN SubSeq(s, 1, maxLength) \o Truncated ELSE s

\* sanitizeForPrompt(text, maxLength) for a string text
sanitizeForPrompt(text, maxLength) ==
    IF text = << >> THEN << >>
    ELSE LET s1 == SelectSeq(text, LAMBDA c : c \notin Delimiters)
             s2 == replaceAll(RolePattern, TRUE, s1, 1)
             s3 == replaceAll(OverridePattern, FALSE, s2, 1)
             s4 == replaceAll(PersonaPattern, FALSE, s3, 1)
             s5 == collapseRuns(s4, 1, { "\n" }, 3, << "\n", "\n" >>)
             s6 == collapseRuns(s5, 1, { " ", "\t" }, 4, << " ", " ", " " >>)
         IN  truncate(s6, maxLength)

\* The pieces the texts of the model are made of
Fragments ==
    { << "U", "s", "e", "r" >>,
      << ":" >>,
      << "x" >>,
      << " " >>,
      << "{" >>,
      << "]" >>,
      << "f", "o", "r", "g", "e", "t", " " >>,
      << "a", "l", "l", " " >>,
      << "a", "b", "o", "v", "e", " ", "r", "u", "l", "e", "s" >>,
      << "y", "o", "u", " ", "a", "r", "e", " ", "n", "o", "w" >>,
      << " ", " ", " ", " " >>,
      << "\n", "\n", "\n" >> }

RECURSIVE concat(_)
concat(parts) == IF parts = << >> THEN << >> ELSE Head(parts) \o concat(Tail(parts))

Texts == { concat(parts) : parts \in UNION { [1..n -> Fragments] : n \in 0..MaxFragments } }

\* maxLength: one that the texts exceed, and the default
MaxLengths == { 8, 2000 }

InitSanitize ==
    /\ promptText \in Texts \X MaxLengths
    /\ sanitized = << >>
    /\ modelOutput = << >> /\ parsed = << >>
    /\ emailData = << >> /\ userPrompt = << >>
    /\ PageIdle /\ AiIdle /\ AsyncIdle /\ RootIdle /\ BannerIdle /\ WorkerIdle /\ ViewIdle

\* sanitizeForPrompt applied to the text, and once more to its own output
SanitizeForPrompt ==
    /\ sanitized = << >>
    /\ LET output == sanitizeForPrompt(promptText[1], promptText[2])
       IN  sanitized' = << output, sanitizeForPrompt(output, promptText[2]) >>
    /\ UNCHANGED << promptText, modelOutput, parsed, emailData, userPrompt,
                    pageVars, aiVars, asyncVars, rootVars, viewVars, bannerVars, workerVars >>

NextSanitize == SanitizeForPrompt

SpecSanitize == InitSanitize /\ [][NextSanitize]_vars

\* A pattern without its \b items: the phrasing itself, wherever it stands
Phrasing(pats) ==
    [n \in 1..Len(pats) |-> SelectSeq(pats[n], LAMBDA item : item.t # "boundary")]

\* s contains an injection phrasing of one of the two families
HasInjection(s) ==
    \E i \in 1..Len(s) :
        \/ matchAny(Phrasing(OverridePattern), 1, s, i) # 0
        \/ matchAny(Phrasing(PersonaPattern), 1, s, i) # 0

\* s contains "system:", "assistant:" or "user:"
HasRoleToken(s) ==
    \E i \in 1..Len(s) : \E role \in Roles : matchesAt(s, i, role \o << ":" >>)

\* the marker stands in s at position i
AtMarker(s, i, marker) ==
    /\ i >= 1 /\ i + Len(marker) - 1 <= Len(s)
    /\ SubSeq(s, i, i + Len(marker) - 1) = marker

\* a '[removed]' that the truncation cut short stands in s at position i
CutMarker(s, i, maxLength) ==
    /\ i <= maxLength /\ maxLength - i + 1 < Len(Removed)
    /\ SubSeq(s, i, maxLength) = SubSeq(Removed, 1, maxLength - i + 1)
    /\ AtMarker(s, maxLength + 1, Truncated)

\* s has a delimiter character that the markers written by sanitizeForPrompt
\* do not account for
HasInputDelimiter(s, maxLength) ==
    \E i \in 1..Len(s) :
        \/ s[i] \in { "{", "}" }
        \/ /\ s[i] = "["
           /\ ~AtMarker(s, i, Removed) /\ ~AtMarker(s, i - 1, Truncated)
           /\ ~CutMarker(s, i, maxLength)
        \/ /\ s[i] = "]"
           /\ ~AtMarker(s, i - Len(Removed) + 1, Removed)
           /\ ~AtMarker(s, i - Len(Truncated) + 1, Truncated)

\* C27: for every input the output of sanitizeForPrompt contains no injection
\* phrasing, no role token "system:", "assistant:" or "user:" and no delimiter
\* character of the input, and is at most maxLength plus the length of the
\* truncation marker long.
C27_Neutralized ==
    sanitized # << >> =>
       /\ ~HasInjection(sanitized[1])
       /\ ~HasRoleToken(sanitized[1])
       /\ ~HasInputDelimiter(sanitized[1], promptText[2])
       /\ Len(sanitized[1]) <= promptText[2] + Len(Truncated)

\* The parts of C27 that do not depend on where a word begins or ends
C27_DelimitersAndLength ==
    sanitized # << >> =>
       /\ ~HasInputDelimiter(sanitized[1], promptText[2])
       /\ Len(sanitized[1]) <= promptText[2] + Len(Truncated)

\* Text that sanitizeForPrompt has nothing to do to: no delimiter, no role
\* word before a colon, no injection phrasing, no run of three line feeds or
\* of four blanks, and no longer than maxLength
Benign(s, maxLength) ==
    /\ \A i \in 1..Len(s) : s[i] \notin Delimiters
    /\ \A i \in 1..Len(s) : matchAny(Phrasing(RolePattern), 1, s, i) = 0
    /\ ~HasInjection(s)
    /\ \A i \in 1..Len(s) :
          runLength(s, i, { "\n" }) < 3 /\ runLength(s, i, { " ", "\t" }) < 4
    /\ Len(s) <= maxLength

\* C28: sanitizeForPrompt applied to its own output returns that output, for
\* every input, and benign text within the length bound is returned unchanged.
C28_Idempotent ==
    /\ sanitized # << >> => sanitized[2] = sanitized[1]
    /\ sanitized # << >> /\ Benign(promptText[1], promptText[2])
          => sanitized[1] = promptText[1]

\* The second half of C28 alone
C28_BenignUnchanged ==
    sanitized # << >> /\ Benign(promptText[1], promptText[2])
       => sanitized[1] = promptText[1]

(***************************************************************************)
(* buildAiUserPrompt (SpecPrompt).  The prompt is kept as the sequence of  *)
(* the request values embedded in it, each with the field it came from.    *)
(***************************************************************************)

MaxLinks == 21

\* Text that sanitizeForPrompt rewrites, and text that it leaves alone
HostileText == << "{", "U", "s", "e", "r", ":", " ", "y", "o", "u", " ", "a", "r", "e", " ", "n", "o", "w" >>

PlainText == << "p", "a", "s", "s" >>

NoneText == << "(", "n", "o", "n", "e", ")" >>

UnknownText == << "u", "n", "k", "n", "o", "w", "n" >>

\* data.auth: absent, or spf / dkim / dmarc of which some may be missing
AuthContexts ==
    { [present |-> FALSE, spf |-> << >>, dkim |-> << >>, dmarc |-> << >>],
      [present |-> TRUE, spf |-> PlainText, dkim |-> PlainText, dmarc |-> << >>],
      [present |-> TRUE, spf |-> HostileText, dkim |-> PlainText, dmarc |-> PlainText] }

LinkLists ==
    { [i \in 1..n |-> [text |-> HostileText, href |-> PlainText]] : n \in { 0, 1, MaxLinks } }

\* The requests handed to buildAiUserPrompt
EmailRequests ==
    [displayName : { << >>, HostileText }, senderEmail : { PlainText, HostileText },
     subject : { << >>, PlainText, HostileText }, bodyText : { << >>, HostileText },
     auth : AuthContexts, links : LinkLists]

Embedded(field, text) == [field |-> field, text |-> text]

\* value || fallback
orElse(value, fallback) == IF value = << >> THEN fallback ELSE value

\* The Authentication line of buildAiUserPrompt
authLine(auth) ==
    << Embedded("auth.spf", orElse(auth.spf, UnknownText)),
       Embedded("auth.dkim", orElse(auth.dkim, UnknownText)),
       Embedded("auth.dmarc", orElse(auth.dmarc, UnknownText)) >>

\* data.links.slice(0, 20)
slice20(links) == SubSeq(links, 1, IF Len(links) < 20 THEN Len(links) ELSE 20)

\* The lines pushed for the links, one text and one href each
RECURSIVE linkLines(_)
linkLines(links) ==
    IF links = << >> THEN << >>
    ELSE << Embedded("link.text", sanitizeForPrompt(Head(links).text, 200)),
            Embedded("link.href", sanitizeForPrompt(Head(links).href, 500)) >>
            \o linkLines(Tail(links))

buildAiUserPrompt(data) ==
    << Embedded("displayName", orElse(sanitizeForPrompt(data.displayName, 200), NoneText)),
       Embedded("senderEmail", sanitizeForPrompt(data.senderEmail, 320)),
       Embedded("subject", orElse(sanitizeForPrompt(data.subject, 500), NoneText)) >>
       \o (IF data.bodyText # << >>
           THEN << Embedded("bodyText", sanitizeForPrompt(data.bodyText, 2000)) >>
           ELSE << >>)
       \o (IF data.auth.present THEN authLine(data.auth) ELSE << >>)
       \o (IF Len(data.links) > 0 THEN linkLines(slice20(data.links)) ELSE << >>)

InitPrompt ==
    /\ emailData \in EmailRequests
    /\ userPrompt = << >>
    /\ modelOutput = << >> /\ parsed = << >>
    /\ promptText = << >> /\ sanitized = << >>
    /\ PageIdle /\ AiIdle /\ AsyncIdle /\ RootIdle /\ BannerIdle /\ WorkerIdle /\ ViewIdle

BuildAiUserPrompt ==
    /\ userPrompt = << >>
    /\ userPrompt' = buildAiUserPrompt(emailData)
    /\ UNCHANGED << emailData, modelOutput, parsed, promptText, sanitized,
                    pageVars, aiVars, asyncVars, rootVars, viewVars, bannerVars, workerVars >>

NextPrompt == BuildAiUserPrompt

SpecPrompt == InitPrompt /\ [][NextPrompt]_vars

\* The values of the request that belong to a field of the prompt
RawValues(data, field) ==
    CASE field = "displayName" -> { data.displayName }
      [] field = "senderEmail" -> { data.senderEmail }
      [] field = "subject" -> { data.subject }
      [] field = "bodyText" -> { data.bodyText }
      [] field = "auth.spf" -> { data.auth.spf }
      [] field = "auth.dkim" -> { data.auth.dkim }
      [] field = "auth.dmarc" -> { data.auth.dmarc }
      [] field = "link.text" -> { data.links[i].text : i \in 1..Len(data.links) }
      [] field = "link.href" -> { data.links[i].href : i \in 1..Len(data.links) }

\* What a value can read like once it has passed through sanitizeForPrompt
PassedThrough(raw) ==
    { orElse(sanitizeForPrompt(raw, maxLength), fallback) :
        maxLength \in { 200, 320, 500, 2000 }, fallback \in { << >>, NoneText, UnknownText } }

\* C29: every value of the request embedded in the user prompt (display name,
\* sender address, subject, body, each link's text and href, and the
\* authentication context) is the output of sanitizeForPrompt on that value,
\* and at most 20 links are embedded.
C29_AllSanitized ==
    userPrompt # << >> =>
       /\ \A n \in 1..Len(userPrompt) :
             \E raw \in RawValues(emailData, userPrompt[n].field) :
                userPrompt[n].text \in PassedThrough(raw)
       /\ Cardinality({ n \in 1..Len(userPrompt) : userPrompt[n].field = "link.href" }) <= 20

\* C29 without the authentication context
C29_ContentSanitized ==
    userPrompt # << >> =>
       /\ \A n \in 1..Len(userPrompt) :
             userPrompt[n].field \notin { "auth.spf", "auth.dkim", "auth.dmarc" }
                => \E raw \in RawValues(emailData, userPrompt[n].field) :
                      userPrompt[n].text \in PassedThrough(raw)
       /\ Cardinality({ n \in 1..Len(userPrompt) : userPrompt[n].field = "link.href" }) <= 20

(***************************************************************************)
(* insertBanner with its AI analysis block (SpecAdvisory): the banner of   *)
(* SpecBanner together with the AI row and the Gemini icon in aiSection.   *)
(***************************************************************************)

\* The senders of the banners: every logo outcome of one domain
AdvisoryInfos == { info \in SenderInfos : info.fullDomain = << "stripe", ".", "com" >> }

\* The header fetches of the banners: an error, and the auth results with spf
\* pass or fail, dkim pass or absent and dmarc pass, fail or absent
AdvisoryResults ==
    { result \in HeaderFetchResults :
        \/ result.kind = "error"
        \/ /\ result.auth # NoAuth
           /\ result.auth.spf \in { "pass", "fail" }
           /\ result.auth.dkim \in { "pass", ABSENT }
           /\ result.auth.dmarc \in { "pass", "fail", ABSENT }
           /\ ~result.auth.originalSender }

\* What requestAiAnalysis can resolve with
AiResults == { aiResolveValue(resp) : resp \in AiResponses } \cup { TimedOut, [verdict |-> "Caution"] }

\* applyResult: the class given to the Gemini icon
applyResult(result) ==
    IF result # NullValue /\ "parseError" \in DOMAIN result THEN "gsi-gemini-neutral"
    ELSE IF result # NullValue /\ "verdict" \in DOMAIN result
    THEN CASE result.verdict = "Ok" -> "gsi-gemini-ok"
           [] result.verdict = "Reject" -> "gsi-gemini-reject"
           [] OTHER -> "gsi-gemini-caution"
    ELSE "gsi-gemini-neutral"

\* await checkAiAvailable() of the AI block returns
AiStatusArrives ==
    /\ aiSection.pc = "check"
    /\ \E available \in BOOLEAN :
          aiSection' = IF available
                       THEN [pc |-> "analyze", icon |-> "gray", row |-> "scanning"]
                       ELSE [aiSection EXCEPT !.pc = "off"]
    /\ UNCHANGED << securityCache, bannerInfo, bannerState, summaryVerdict, secPc,
                    secStatus, authResults, logoChain, logoIdx, logoStatus,
                    origFetch, currentBannerEmail, bannersInPage,
                    rootVars, workerVars, extraVars >>

\* An AI result that also decides the verdict of the banner
AiResultArrives_SetsVerdict ==
    /\ aiSection.pc \in { "analyze", "retry" }
    /\ \E result \in AiResults :
          /\ aiSection' = [pc |-> "shown", icon |-> applyResult(result),
                           row |-> aiBannerRow(result)]
          /\ summaryVerdict' = IF aiBannerRow(result) = "Ok" THEN setVerdict("trusted")
                               ELSE summaryVerdict
    /\ UNCHANGED << securityCache, bannerInfo, bannerState, secPc,
                    secStatus, authResults, logoChain, logoIdx, logoStatus,
                    origFetch, currentBannerEmail, bannersInPage,
                    rootVars, workerVars, extraVars >>

\* requestAiAnalysis resolves, for the first analysis or for a retry:
\* updateAiSection and applyResult
AiResultArrives ==
    /\ aiSection.pc \in { "analyze", "retry" }
    /\ \E result \in AiResults :
          aiSection' = [pc |-> "shown", icon |-> applyResult(result),
                        row |-> aiBannerRow(result)]
    /\ UNCHANGED << securityCache, bannerInfo, bannerState, summaryVerdict, secPc,
                    secStatus, authResults, logoChain, logoIdx, logoStatus,
                    origFetch, currentBannerEmail, bannersInPage,
                    rootVars, workerVars, extraVars >>

\* A click on the refresh button of the AI row: the row is removed and
\* handleRetry asks again with skipCache
RefreshClick ==
    /\ aiSection.pc = "shown"
    /\ aiSection' = [aiSection EXCEPT !.pc = "retry", !.row = "none"]
    /\ UNCHANGED << securityCache, bannerInfo, bannerState, summaryVerdict, secPc,
                    secStatus, authResults, logoChain, logoIdx, logoStatus,
                    origFetch, currentBannerEmail, bannersInPage,
                    rootVars, workerVars, extraVars >>

InitAdvisory == BannerIdle /\ RootIdle /\ WorkerIdle /\ ExtraIdle

NextAdvisory ==
    \/ \E info \in AdvisoryInfos, msgResult \in MessageIds \cup {NoMessageId} :
          InsertBannerWith(info, msgResult)
    \/ \E result \in AdvisoryResults : HeaderResultWith(result)
    \/ HeaderTimeout
    \/ ImgLoad
    \/ ImgError
    \/ AiStatusArrives
    \/ AiResultArrives
    \/ RefreshClick

SpecAdvisory == InitAdvisory /\ [][NextAdvisory]_vars

\* The verdict that the auth results and the logo source of the banner give
AuthAndLogoVerdict ==
    IF bannerInfo = NoInfo THEN "none"
    ELSE IF secPc # "done" THEN "loading"
    ELSE IF authResults = NoAuth THEN "caution"
    ELSE IF getVerdict(authResults, bannerInfo) = "trusted"
            /\ bannerState.resolvedLogoSource = SOURCE_UNKNOWN THEN "caution"
    ELSE getVerdict(authResults, bannerInfo)

\* A step of the AI block of the current banner
AiStep == aiSection' # aiSection /\ aiSection'.pc # "check"

\* C30: the AI result is advisory: whatever the AI outcome (Ok, Caution,
\* Reject, parse error, timeout, unavailable, failure) and whether it arrives
\* before or after the auth verdict, the verdict shown is the one the auth
\* results and the logo source give, and no step of the AI block changes it; an
\* AI Ok never turns caution or dangerous into trusted.
C30_Advisory ==
    /\ [](summaryVerdict = AuthAndLogoVerdict)
    /\ [][AiStep => /\ summaryVerdict' = summaryVerdict
                    /\ bannerState' = bannerState]_vars

\* AI says Ok, after the auth verdict dangerous was shown
C30_Witness ==
    /\ aiSection.pc = "shown" /\ aiSection.row = "Ok"
    /\ SecurityDone
    /\ summaryVerdict = "dangerous"

(***************************************************************************)
(* resolveLogo for a sender whose root domain differs from its domain and  *)
(* for one whose root domain is its domain (SpecResolve); several          *)
(* getSenderInfo messages handled at once (SpecGlobe).                     *)
(***************************************************************************)

ResolveEmails ==
    { << "bob", "@", "mail", ".", "example", ".", "co", ".", "uk" >>,
      << "pay", "@", "stripe", ".", "com" >> }

InitResolve ==
    /\ store = << >>
    /\ now = 0
    /\ ticks = 0
    /\ storageUp \in BOOLEAN
    /\ globeRefBytes = NoBytes
    /\ req = [r \in 1..MaxRequests |-> IdleRequest]
    /\ aiSession = "null"
    /\ aiAvailable = "null"
    /\ aiResultCache = << >>
    /\ RootIdle /\ BannerIdle /\ ExtraIdle

NextResolve ==
    \E r \in 1..MaxRequests :
       \/ \E raw \in ResolveEmails : GetSenderInfoWith(r, raw)
       \/ GetCached(r)
       \/ LookupBimiFull(r)
       \/ LookupBimiRoot(r)
       \/ GlobeStart(r)
       \/ GlobeRefDone(r)
       \/ GlobeFavDone(r)
       \/ SetCacheRespond(r)

SpecResolve == InitResolve /\ [][NextResolve]_vars

MaxResolutions == 2

InitGlobe ==
    /\ store = << >>
    /\ now = 0
    /\ ticks = 0
    /\ storageUp = TRUE
    /\ globeRefBytes = NoBytes
    /\ req = [r \in 1..MaxResolutions |-> IdleRequest]
    /\ aiSession = "null"
    /\ aiAvailable = "null"
    /\ aiResultCache = << >>
    /\ RootIdle /\ BannerIdle /\ ExtraIdle

NextGlobe ==
    \E r \in 1..MaxResolutions :
       \/ GetSenderInfo(r)
       \/ GetCached(r)
       \/ LookupBimiFull(r)
       \/ LookupBimiRoot(r)
       \/ GlobeStart(r)
       \/ GlobeRefDone(r)
       \/ GlobeFavDone(r)
       \/ SetCacheRespond(r)

SpecGlobe == InitGlobe /\ [][NextGlobe]_vars

\* The domain handler r resolves
ResolvedDomain(r) == emailDomain(req[r].email)

C31_StateInv ==
    \A r \in DOMAIN req :
       /\ req[r].pc = "bimiRoot" =>
             /\ req[r].bimiUrl = NoUrl
             /\ getRootDomain(ResolvedDomain(r)) # ResolvedDomain(r)
       /\ req[r].bimiUrl # NoUrl => endsWith(req[r].bimiUrl, ".svg")
       /\ req[r].info # NoInfo =>
             /\ req[r].info.logoSource = "bimi" <=> req[r].info.logoUrl # NoUrl
             /\ req[r].info.logoUrl # NoUrl => endsWith(req[r].info.logoUrl, ".svg")

\* C31: resolveLogo asks for the BIMI record of the full domain first; it asks
\* for the one of the root domain only after the first lookup gave nothing and
\* only when the root domain differs from the full domain, and then always; a
\* logo URL is accepted only if it ends in .svg; logoSource is bimi exactly
\* when the lookups left an accepted URL, which becomes logoUrl.
C31_BimiOrder ==
    /\ []C31_StateInv
    /\ [][\A r \in DOMAIN req :
            /\ (req[r].pc = "getCached" /\ req'[r].pc \notin { "getCached", "done" })
                  => req'[r].pc = "bimiFull"
            /\ (req'[r].pc = "bimiRoot" /\ req[r].pc # "bimiRoot")
                  => req[r].pc = "bimiFull"
            /\ (req'[r].pc = "globe" /\ req[r].pc # "globe")
                  => \/ req[r].pc = "bimiRoot"
                     \/ /\ req[r].pc = "bimiFull"
                        /\ \/ req'[r].bimiUrl # NoUrl
                           \/ getRootDomain(ResolvedDomain(r)) = ResolvedDomain(r)
            /\ (req[r].pc = "favWait" /\ req'[r].pc = "setCache")
                  => req'[r].info.logoUrl = req[r].bimiUrl]_vars

\* the logo of the root domain is answered after the lookup of the full domain
\* gave nothing
C31_Witness ==
    \E r \in DOMAIN req :
       /\ req[r].pc = "done" /\ req[r].info # NoInfo
       /\ getRootDomain(ResolvedDomain(r)) # ResolvedDomain(r)
       /\ req[r].response.logoSource = "bimi"
       /\ req[r].response.logoUrl = BimiSvgUrl(getRootDomain(ResolvedDomain(r)))

\* the root domain is the full domain: no second lookup, no logo
C31_WitnessSameDomain ==
    \E r \in DOMAIN req :
       /\ req[r].pc = "globe" /\ req[r].bimiUrl = NoUrl
       /\ getRootDomain(ResolvedDomain(r)) = ResolvedDomain(r)

\* Handler r issues the fetch of the reference icon in this step
ReferenceFetchIssued(r) == req[r].pc # "refWait" /\ req'[r].pc = "refWait"

\* C32: the reference byte stream is fetched once and memoized: no reference
\* fetch is issued once globeRefBytes holds the bytes, and none is issued while
\* another one is in flight, however many lookups run at once.
C32_OneReferenceFetch ==
    [][\A r \in DOMAIN req :
          ReferenceFetchIssued(r) =>
             /\ globeRefBytes = NoBytes
             /\ \A other \in DOMAIN req \ {r} : req[other].pc # "refWait"]_vars

\* The first half of C32 alone
C32_NoFetchAfterMemo ==
    [][\A r \in DOMAIN req : ReferenceFetchIssued(r) => globeRefBytes = NoBytes]_vars

(***************************************************************************)
(* What reaches the AI result cache (SpecAi, SpecInconclusive)             *)
(***************************************************************************)

\* The message the listener has just taken in
Newest == ai'[Len(ai')]

\* A response made from a completed prompt
FromPrompt(response) == "result" \in DOMAIN response

\* Message a is answered in this step
AnsweredNow(a) ==
    /\ ai'[a].kind = "analyzeEmail" /\ ai'[a].pc = "done"
    /\ a \in DOMAIN ai => ai[a].pc # "done"

\* C35: an analyzeEmail request answered with the failure response or with the
\* unavailable response leaves aiResultCache as it was, except that a request
\* arriving with skipCache has its own key deleted; every entry written to the
\* cache is the response of a prompt that has just completed.
C35_FailureLeavesCache ==
    [][/\ \A a \in DOMAIN ai' :
             (AnsweredNow(a) /\ ai'[a].response \in { FailedResponse, UnavailableResponse })
                => IF a \in DOMAIN ai THEN aiResultCache' = aiResultCache
                   ELSE \E skipCache \in BOOLEAN :
                           /\ AnalyzeEmailWith(ai'[a].data, skipCache)
                           /\ aiResultCache' = IF skipCache
                                               THEN StoreRemove(aiResultCache, ai'[a].key)
                                               ELSE aiResultCache
       /\ \A k \in DOMAIN aiResultCache' :
             (k \notin DOMAIN aiResultCache \/ aiResultCache'[k] # aiResultCache[k])
                => \E a \in DOMAIN ai :
                      /\ ai[a].pc = "promptWait" /\ ai[a].key = k
                      /\ ai'[a].pc = "done"
                      /\ ai'[a].response = aiResultCache'[k]
                      /\ FromPrompt(ai'[a].response)]_vars

\* Both attempts of the second request have failed while the cache holds the
\* result of the first
C35_Witness ==
    /\ Len(ai) = 2
    /\ ai[2].pc = "done" /\ ai[2].retry /\ ai[2].response = FailedResponse
    /\ ai[1].pc = "done" /\ FromPrompt(ai[1].response)
    /\ ai[1].key \in DOMAIN aiResultCache
    /\ aiResultCache[ai[1].key] = ai[1].response

\* An unavailable answer to a request that arrived with skipCache: the entry
\* under its key is gone, nothing else has changed
C35_WitnessUnavailable ==
    /\ Len(ai) = 2
    /\ ai[1].pc = "done" /\ FromPrompt(ai[1].response)
    /\ ai[2].pc = "done" /\ ai[2].response = UnavailableResponse
    /\ ai[2].key = ai[1].key
    /\ aiResultCache = << >>

\* Model output with no verdict in it, and output with one
InconclusiveOutput == << Punct("{"), Str(<< "maybe" >>) >>

ConclusiveOutput ==
    << Punct("{"), Str(<< "verdict" >>), Punct(":"), Str(<< "Reject" >>), Punct("}") >>

PromptOutputs == { InconclusiveOutput, ConclusiveOutput }

\* The email every request of this specification is about
ViewedEmail ==
    [senderEmail |-> "bob@mail.example.co.uk", messageId |-> "18c2a4f1b3d",
     subject |-> Invoice]

InitInconclusive ==
    /\ store = << >>
    /\ now = 0
    /\ ticks = 0
    /\ storageUp = TRUE
    /\ globeRefBytes = NoBytes
    /\ req = [r \in 1..MaxRequests |-> IdleRequest]
    /\ aiSession = "null"
    /\ aiAvailable = "null"
    /\ aiResultCache = << >>
    /\ ai = << >>
    /\ sessions = << >>
    /\ clones = << >>
    /\ hasApi = TRUE
    /\ PageIdle /\ AsyncIdle /\ EngineIdle /\ RootIdle /\ BannerIdle /\ ViewIdle

NextInconclusive ==
    \/ \E skipCache \in BOOLEAN : AnalyzeEmailWith(ViewedEmail, skipCache)
    \/ \E a \in DOMAIN ai : AvailabilityDone(a)
    \/ \E a \in DOMAIN ai : CreateDone(a)
    \/ \E a \in DOMAIN ai : CloneDone(a)
    \/ \E a \in DOMAIN ai, raw \in PromptOutputs : PromptResolves(a, raw)
    \/ \E a \in DOMAIN ai : PromptRejects(a)

SpecInconclusive == InitInconclusive /\ [][NextInconclusive]_vars

\* result of the handler: parseAiResult(rawResponse)
resultOf(response) == parseAiResult(response.result)

\* C36: every entry of aiResultCache carries a verdict; a result with
\* parseError set and no verdict is never stored, so a request without
\* skipCache is never answered from the cache with a parse error.
C36_OnlyVerdictsCached ==
    /\ \A k \in DOMAIN aiResultCache :
          /\ resultOf(aiResultCache[k]).verdict # "null"
          /\ ~resultOf(aiResultCache[k]).parseError
    /\ \A a \in DOMAIN ai :
          (ai[a].pc = "done" /\ FromPrompt(ai[a].response) /\ FromCache(ai[a].response))
             => ~resultOf(ai[a].response).parseError

\* The parse error of one request is replayed to the next
C36_Replayed ==
    /\ Len(ai) = 2
    /\ ai[1].pc = "done" /\ FromPrompt(ai[1].response) /\ ~FromCache(ai[1].response)
    /\ resultOf(ai[1].response).parseError
    /\ ai[2].pc = "done" /\ FromPrompt(ai[2].response) /\ FromCache(ai[2].response)
    /\ resultOf(ai[2].response).parseError

(***************************************************************************)
(* The pending-request map of the content script (SpecPage)                *)
(***************************************************************************)

\* C37: pendingRequests holds an entry for an address only while the promise
\* of the request for that address is unsettled; once the promise has settled
\* (by a response, a runtime error, or a throw of sendMessage) the map has no
\* entry for the address.
C37_PendingOnlyWhileUnsettled ==
    \A email \in DOMAIN pendingRequests :
       ~promises[pendingRequests[email]].settled

\* The entry a throwing sendMessage leaves behind: its promise is settled and
\* was never sent
C37_EntryAfterThrow ==
    \E email \in DOMAIN pendingRequests :
       /\ promises[pendingRequests[email]].settled
       /\ ~promises[pendingRequests[email]].sent
       /\ ~contextValid

\* What does hold: the entry of a request that was sent is gone once its
\* callback has run
C37_CallbackClears ==
    \A email \in DOMAIN pendingRequests :
       promises[pendingRequests[email]].sent
          => ~promises[pendingRequests[email]].settled

(***************************************************************************)
(* The Message Locator: getMessageId over bounded pages (SpecLocator).     *)
(* An attribute value or URL fragment is a string; Spelling gives its      *)
(* characters, which is what the regular expressions read.                 *)
(***************************************************************************)

MaxElements == 2

Digits == { "0", "1", "2", "3", "4", "5", "6", "7", "8", "9" }

LowerLetters ==
    { "a", "b", "c", "d", "e", "f", "g", "h", "i", "j", "k", "l", "m",
      "n", "o", "p", "q", "r", "s", "t", "u", "v", "w", "x", "y", "z" }

UpperLetters ==
    { "A", "B", "C", "D", "E", "F", "G", "H", "I", "J", "K", "L", "M",
      "N", "O", "P", "Q", "R", "S", "T", "U", "V", "W", "X", "Y", "Z" }

\* [0-9a-f] with the i flag
HexChars == Digits \cup { "a", "b", "c", "d", "e", "f", "A", "B", "C", "D", "E", "F" }

\* [A-Za-z0-9_-]
FragmentChars == Digits \cup LowerLetters \cup UpperLetters \cup { "_", "-" }

Spelling ==
    [s \in { "", "draft", "18c2a4f1b3d", "#msg-f:1234567890", "499602d2",
             "#inbox", "#inbox/FMfcgzQXJWDsKmQ", "FMfcgzQXJWDsKmQ" } |->
       CASE s = "" -> << >>
         [] s = "draft" -> << "d", "r", "a", "f", "t" >>
         [] s = "18c2a4f1b3d" ->
               << "1", "8", "c", "2", "a", "4", "f", "1", "b", "3", "d" >>
         [] s = "#msg-f:1234567890" ->
               << "#", "m", "s", "g", "-", "f", ":",
                  "1", "2", "3", "4", "5", "6", "7", "8", "9", "0" >>
         [] s = "499602d2" -> << "4", "9", "9", "6", "0", "2", "d", "2" >>
         [] s = "#inbox" -> << "#", "i", "n", "b", "o", "x" >>
         [] s = "#inbox/FMfcgzQXJWDsKmQ" ->
               << "#", "i", "n", "b", "o", "x", "/", "F", "M", "f", "c", "g",
                  "z", "Q", "X", "J", "W", "D", "s", "K", "m", "Q" >>
         [] s = "FMfcgzQXJWDsKmQ" ->
               << "F", "M", "f", "c", "g", "z", "Q", "X", "J", "W", "D", "s",
                  "K", "m", "Q" >>]

\* The string spelled by chars
Text(chars) == CHOOSE s \in DOMAIN Spelling : Spelling[s] = chars

\* The end of the run of characters of class that starts at i
RECURSIVE runEnd(_, _, _)
runEnd(chars, class, i) ==
    IF i <= Len(chars) /\ chars[i] \in class THEN runEnd(chars, class, i + 1)
    ELSE i - 1

\* msgId.match(/(\d{10,})/): the leftmost run of ten or more digits, << >>
\* when there is none
decMatch(chars) ==
    LET starts == { i \in 1..Len(chars) : runEnd(chars, Digits, i) - i + 1 >= 10 }
    IN  IF starts = { } THEN << >>
        ELSE LET i == CHOOSE j \in starts : \A k \in starts : j <= k
             IN  SubSeq(chars, i, runEnd(chars, Digits, i))

\* /^[0-9a-f]{10,}$/i.test(msgId)
hexTest(chars) ==
    Len(chars) >= 10 /\ \A i \in 1..Len(chars) : chars[i] \in HexChars

\* hash.match(/[/#]([A-Za-z0-9_-]{10,})$/): the captured group, << >> when
\* there is no match
hashMatch(chars) ==
    LET starts == { i \in 1..Len(chars) :
                      /\ chars[i] \in { "/", "#" }
                      /\ Len(chars) - i >= 10
                      /\ runEnd(chars, FragmentChars, i + 1) = Len(chars) }
    IN  IF starts = { } THEN << >>
        ELSE LET i == CHOOSE j \in starts : \A k \in starts : j <= k
             IN  SubSeq(chars, i + 1, Len(chars))

DigitValue(c) ==
    CASE c = "0" -> 0 [] c = "1" -> 1 [] c = "2" -> 2 [] c = "3" -> 3 [] c = "4" -> 4
      [] c = "5" -> 5 [] c = "6" -> 6 [] c = "7" -> 7 [] c = "8" -> 8 [] c = "9" -> 9

\* BigInt(digits)
RECURSIVE bigInt(_)
bigInt(digits) ==
    IF digits = << >> THEN 0
    ELSE 10 * bigInt(SubSeq(digits, 1, Len(digits) - 1)) + DigitValue(digits[Len(digits)])

HexDigit ==
    << "0", "1", "2", "3", "4", "5", "6", "7", "8", "9", "a", "b", "c", "d", "e", "f" >>

\* n.toString(16)
RECURSIVE toString16(_)
toString16(n) ==
    IF n < 16 THEN << HexDigit[n + 1] >>
    ELSE Append(toString16(n \div 16), HexDigit[(n % 16) + 1])

NoAttr == "absent"

NoSender == << >>

NoLocation == [id |-> NoMessageId, source |-> "null"]

\* What one data-message-id value gives: the decimal part as hex, the value
\* itself when it looks like hex, nothing otherwise
fromAttribute(msgId, decSource, hexSource) ==
    IF msgId = "" THEN NoLocation
    ELSE IF decMatch(Spelling[msgId]) # << >>
    THEN [id |-> Text(toString16(bigInt(decMatch(Spelling[msgId])))), source |-> decSource]
    ELSE IF hexTest(Spelling[msgId]) THEN [id |-> msgId, source |-> hexSource]
    ELSE NoLocation

\* The first value of msgIds, in that order, that gives an identifier
RECURSIVE firstFound(_, _, _)
firstFound(msgIds, decSource, hexSource) ==
    IF msgIds = << >> THEN NoLocation
    ELSE IF fromAttribute(Head(msgIds), decSource, hexSource) # NoLocation
    THEN fromAttribute(Head(msgIds), decSource, hexSource)
    ELSE firstFound(Tail(msgIds), decSource, hexSource)

\* The data-message-id values met on the way up from the sender element, and
\* those of the whole document in document order.  An ancestor comes before
\* its descendants in document order, so the walk meets them last to first.
RECURSIVE walkUp(_)
walkUp(elements) ==
    IF elements = << >> THEN << >>
    ELSE LET rest == walkUp(SubSeq(elements, 1, Len(elements) - 1))
             last == elements[Len(elements)]
         IN  IF last.ancestor THEN << last.value >> \o rest ELSE rest

documentOrder(elements) == [i \in 1..Len(elements) |-> elements[i].value]

\* A locator that searches the whole document before walking up from the sender
getMessageId_BroadFirst(page) ==
    IF page.legacy # NoAttr /\ page.legacy # ""
    THEN [id |-> page.legacy, source |-> "legacy"]
    ELSE IF firstFound(documentOrder(page.elements),
                       "data-msg-id-broad", "data-msg-id-hex-broad") # NoLocation
    THEN firstFound(documentOrder(page.elements),
                    "data-msg-id-broad", "data-msg-id-hex-broad")
    ELSE IF page.sender # NoSender
            /\ firstFound(walkUp(page.elements), "data-msg-id", "data-msg-id-hex")
                  # NoLocation
    THEN firstFound(walkUp(page.elements), "data-msg-id", "data-msg-id-hex")
    ELSE IF hashMatch(Spelling[page.hash]) # << >>
    THEN [id |-> Text(hashMatch(Spelling[page.hash])), source |-> "hash"]
    ELSE NoLocation

\* getMessageId(), NoLocation for null
getMessageId(page) ==
    IF page.legacy # NoAttr /\ page.legacy # ""
    THEN [id |-> page.legacy, source |-> "legacy"]
    ELSE IF page.sender # NoSender
            /\ firstFound(walkUp(page.elements), "data-msg-id", "data-msg-id-hex")
                  # NoLocation
    THEN firstFound(walkUp(page.elements), "data-msg-id", "data-msg-id-hex")
    ELSE IF firstFound(documentOrder(page.elements),
                       "data-msg-id-broad", "data-msg-id-hex-broad") # NoLocation
    THEN firstFound(documentOrder(page.elements),
                    "data-msg-id-broad", "data-msg-id-hex-broad")
    ELSE IF hashMatch(Spelling[page.hash]) # << >>
    THEN [id |-> Text(hashMatch(Spelling[page.hash])), source |-> "hash"]
    ELSE NoLocation

\* The values a data-message-id attribute takes
MessageIdAttrs == { "", "draft", "18c2a4f1b3d", "#msg-f:1234567890" }

\* The pages of an opened email: the first data-legacy-message-id attribute,
\* the sender element, the elements with a data-message-id attribute in
\* document order (ancestor: on the path from the sender element to the
\* body), and the URL fragment
Pages ==
    { [subject |-> TRUE, legacy |-> l, sender |-> s, elements |-> e, hash |-> h] :
        l \in { NoAttr, "", "18c2a4f1b3d" },
        s \in { NoSender, << "pay", "@", "stripe", ".", "com" >> },
        e \in UNION { [1..n -> [value : MessageIdAttrs, ancestor : BOOLEAN]] :
                        n \in 0..MaxElements },
        h \in { "", "#inbox", "#inbox/FMfcgzQXJWDsKmQ" } }

\* Without a sender element nothing is on the path from it
LocatorPages ==
    { page \in Pages :
        page.sender = NoSender =>
           \A i \in 1..Len(page.elements) : ~page.elements[i].ancestor }

LocatorInfo == CHOOSE info \in AdvisoryInfos : TRUE

InitLocator ==
    /\ dom \in LocatorPages
    /\ located = << >>
    /\ observer = [active |-> FALSE, connected |-> FALSE]
    /\ insertions = << >>
    /\ sent = << >>
    /\ windowMessages = << >>
    /\ PageIdle /\ AiIdle /\ AsyncIdle /\ EngineIdle
    /\ RootIdle /\ BannerIdle /\ WorkerIdle

\* insertBanner in the page: createSecuritySection asks getMessageId
LocateMessage ==
    /\ located = << >>
    /\ located' = getMessageId(dom)
    /\ insertBanner(LocatorInfo, getMessageId(dom).id)
    /\ UNCHANGED << dom, observer, insertions, sent, windowMessages, pageVars,
                    aiVars, asyncVars, engineVars, rootVars, workerVars >>

NextLocator == LocateMessage

SpecLocator == InitLocator /\ [][NextLocator]_vars

\* A data-message-id value an identifier can be taken from
Usable(msgId) ==
    msgId # "" /\ (decMatch(Spelling[msgId]) # << >> \/ hexTest(Spelling[msgId]))

LegacySucceeds == dom.legacy \notin { NoAttr, "" }

WalkSucceeds ==
    /\ dom.sender # NoSender
    /\ \E i \in 1..Len(dom.elements) :
          dom.elements[i].ancestor /\ Usable(dom.elements[i].value)

BroadSucceeds == \E i \in 1..Len(dom.elements) : Usable(dom.elements[i].value)

HashSucceeds == dom.hash = "#inbox/FMfcgzQXJWDsKmQ"

\* The identifier value msgId stands for
IdentifierOf(msgId) ==
    IF msgId = "#msg-f:1234567890" THEN "499602d2" ELSE msgId

\* C33: getMessageId answers with the first of its strategies that succeeds,
\* in the order legacy attribute, walk up from the sender, whole document, URL
\* fragment, and with that strategy's identifier and source tag; it answers
\* null exactly when all four fail, and then the security section shows
\* "Unable to find message ID" and no header fetch is started.
C33_FirstStrategy ==
    located # << >> =>
       /\ located.source = "legacy" <=> LegacySucceeds
       /\ located.source \in { "data-msg-id", "data-msg-id-hex" }
             <=> (~LegacySucceeds /\ WalkSucceeds)
       /\ located.source \in { "data-msg-id-broad", "data-msg-id-hex-broad" }
             <=> (~LegacySucceeds /\ ~WalkSucceeds /\ BroadSucceeds)
       /\ located.source = "hash"
             <=> (~LegacySucceeds /\ ~WalkSucceeds /\ ~BroadSucceeds /\ HashSucceeds)
       /\ located = NoLocation
             <=> (~LegacySucceeds /\ ~WalkSucceeds /\ ~BroadSucceeds /\ ~HashSucceeds)
       /\ located.source = "legacy" => located.id = dom.legacy
       /\ located.source \in { "data-msg-id", "data-msg-id-hex" } =>
             \E i \in 1..Len(dom.elements) :
                /\ dom.elements[i].ancestor /\ Usable(dom.elements[i].value)
                /\ \A j \in (i + 1)..Len(dom.elements) :
                      ~(dom.elements[j].ancestor /\ Usable(dom.elements[j].value))
                /\ located.id = IdentifierOf(dom.elements[i].value)
                /\ located.source = "data-msg-id"
                      <=> dom.elements[i].value = "#msg-f:1234567890"
       /\ located.source \in { "data-msg-id-broad", "data-msg-id-hex-broad" } =>
             \E i \in 1..Len(dom.elements) :
                /\ Usable(dom.elements[i].value)
                /\ \A j \in 1..(i - 1) : ~Usable(dom.elements[j].value)
                /\ located.id = IdentifierOf(dom.elements[i].value)
                /\ located.source = "data-msg-id-broad"
                      <=> dom.elements[i].value = "#msg-f:1234567890"
       /\ located.source = "hash" => located.id = "FMfcgzQXJWDsKmQ"
       /\ located = NoLocation =>
             /\ secPc = "done" /\ secStatus = "Unable to find message ID"
             /\ origFetch = "done"
       /\ located # NoLocation =>
             /\ secPc = located.id /\ origFetch = located.id

\* The legacy attribute is empty, the ancestor nearest the sender holds a draft
\* marker, and the walk takes the decimal identifier of the next one although
\* an element earlier in the document holds a hex identifier
C33_Witness ==
    /\ located = [id |-> "499602d2", source |-> "data-msg-id"]
    /\ dom.legacy = ""
    /\ Len(dom.elements) = 2
    /\ dom.elements[1] = [value |-> "#msg-f:1234567890", ancestor |-> TRUE]
    /\ dom.elements[2] = [value |-> "draft", ancestor |-> TRUE]
    /\ secPc = "499602d2"

\* Every strategy fails and nothing is fetched
C33_WitnessNull ==
    /\ located = NoLocation
    /\ dom.legacy = "" /\ dom.hash = "#inbox"
    /\ Len(dom.elements) = 2
    /\ secPc = "done" /\ origFetch = "done"

(***************************************************************************)
(* The AuthResult cache across banners of one message (SpecAuthCache)      *)
(***************************************************************************)

\* The original-sender block of insertBanner resumes with the result of its
\* own fetchEmailHeaders; what it adds to the banner is not modelled
OriginalSenderResult ==
    /\ origFetch \in MessageIds
    /\ origFetch' = "done"
    /\ UNCHANGED << securityCache, bannerInfo, bannerState, summaryVerdict, secPc,
                    secStatus, authResults, logoChain, logoIdx, logoStatus,
                    aiSection, currentBannerEmail, bannersInPage,
                    rootVars, workerVars, extraVars >>

InitAuthCache == BannerIdle /\ RootIdle /\ WorkerIdle /\ ExtraIdle

NextAuthCache ==
    \/ \E info \in AdvisoryInfos, msgResult \in MessageIds \cup { NoMessageId } :
          InsertBannerWith(info, msgResult)
    \/ \E result \in AdvisoryResults : HeaderResultWith(result)
    \/ HeaderTimeout
    \/ OriginalSenderResult

SpecAuthCache == InitAuthCache /\ [][NextAuthCache]_vars

\* C34: once securityCache holds an AuthResult for message M, a banner
\* inserted for M shows the cached AuthResult and starts no header fetch for
\* M, neither for the security section nor for the original sender.
C34_ProducedOnce ==
    [][\A info \in AdvisoryInfos, m \in MessageIds :
          (m \in DOMAIN securityCache /\ InsertBannerWith(info, m)) =>
             /\ authResults' = securityCache[m]
             /\ securityCache' = securityCache
             /\ secPc' # m
             /\ origFetch' # m]_vars

\* What does hold: the security section of such a banner uses the cached
\* AuthResult and starts no fetch of its own
C34_SectionUsesCache ==
    [][\A info \in AdvisoryInfos, m \in MessageIds :
          (m \in DOMAIN securityCache /\ InsertBannerWith(info, m)) =>
             /\ authResults' = securityCache[m]
             /\ securityCache' = securityCache
             /\ secPc' = "done"]_vars

\* A banner for a message whose AuthResult is cached, with the header fetch of
\* its original-sender block under way
C34_FetchDespiteCache ==
    /\ secPc = "done" /\ secStatus = "rows"
    /\ origFetch \in DOMAIN securityCache

(***************************************************************************)
(* The email view: scan, processEmailView and the banner (SpecView).       *)
(* The callback of sendMessage and the continuations of every              *)
(* processEmailView awaiting its promise run in one step: the              *)
(* continuations are microtasks of the task that runs the callback.        *)
(***************************************************************************)

ViewSender == << "alice", "@", "stripe", ".", "com" >>

\* The page with or without an opened email (.hP, the subject line)
ViewPage(subject) ==
    [subject |-> subject, legacy |-> "18c2a4f1b3d", sender |-> ViewSender,
     elements |-> << >>, hash |-> "#inbox"]

NoneSent == [getSenderInfo |-> 0, checkAiAvailable |-> 0]

\* processEmailView: currentBannerEmail after the reset for a banner that
\* Gmail destroyed
trackedDomain ==
    IF currentBannerEmail # << >> /\ bannersInPage = 0 THEN << >>
    ELSE currentBannerEmail

\* scan() gets as far as requestSenderInfo
scanRequests ==
    /\ contextValid /\ dom.subject /\ dom.sender # NoSender
    /\ trackedDomain # emailDomain(dom.sender)

\* scan() up to the await of processEmailView
scan ==
    IF ~contextValid
    THEN UNCHANGED << pendingRequests, promises, callers, contextValid,
                      currentBannerEmail, bannersInPage, sent >>
    ELSE IF ~dom.subject
    THEN /\ IF currentBannerEmail # << >> THEN removeBanner
            ELSE UNCHANGED << currentBannerEmail, bannersInPage >>
         /\ UNCHANGED << pendingRequests, promises, callers, contextValid, sent >>
    ELSE IF dom.sender = NoSender
    THEN UNCHANGED << pendingRequests, promises, callers, contextValid,
                      currentBannerEmail, bannersInPage, sent >>
    ELSE IF trackedDomain = emailDomain(dom.sender)
    THEN /\ currentBannerEmail' = trackedDomain
         /\ UNCHANGED << pendingRequests, promises, callers, contextValid,
                         bannersInPage, sent >>
    ELSE /\ requestSenderInfo(dom.sender)
         /\ sent' = IF ~pendingHas(pendingRequests, dom.sender) /\ runtimeAlive
                    THEN [sent EXCEPT !.getSenderInfo = @ + 1] ELSE sent
         /\ IF sendThrows(dom.sender) THEN removeBanner
            ELSE /\ currentBannerEmail' = trackedDomain
                 /\ UNCHANGED bannersInPage

\* startObserver(): the initial scan, then the MutationObserver is created
\* and connected
StartObserver ==
    /\ ~observer.active
    /\ scan
    /\ observer' = [active |-> TRUE, connected |-> TRUE]
    /\ UNCHANGED << runtimeAlive, bannerContent, dom, located, insertions,
                    windowMessages, aiVars, asyncVars, engineVars, rootVars,
                    workerVars >>

\* The callback of the MutationObserver
Mutation ==
    /\ observer.connected
    /\ scan
    /\ observer' = IF scanRequests /\ sendThrows(dom.sender)
                   THEN [observer EXCEPT !.connected = FALSE] ELSE observer
    /\ UNCHANGED << runtimeAlive, bannerContent, dom, located, insertions,
                    windowMessages, aiVars, asyncVars, engineVars, rootVars,
                    workerVars >>

\* Gmail opens or closes the email view, or rebuilds it and destroys the banner
GmailRenders ==
    /\ \E subject \in BOOLEAN, banners \in { 0, bannersInPage } :
          /\ << subject, banners >> # << dom.subject, bannersInPage >>
          /\ dom' = [dom EXCEPT !.subject = subject]
          /\ bannersInPage' = banners
    /\ UNCHANGED << currentBannerEmail, bannerContent, located, observer, insertions,
                    sent, windowMessages, pageVars, aiVars, asyncVars, engineVars,
                    rootVars, workerVars >>

\* The processEmailView calls awaiting promise p
awaiting(p) == { c \in DOMAIN callers : callers[c].promise = p }

\* The callback of sendMessage runs for promise p and every processEmailView
\* awaiting p resumes: with a SenderInfo each of them calls insertBanner
ViewCallback ==
    \E p \in DOMAIN promises :
       /\ promises[p].inFlight
       /\ \E resp \in CallbackResults(promises[p].email) :
             /\ sendMessageCallback(p, resp)
             /\ IF callbackFailed(resp)
                THEN /\ invalidateIf(~runtimeAlive)
                     /\ UNCHANGED << bannerContent, insertions, sent >>
                ELSE /\ insertions' = insertions \o
                           [i \in 1..Cardinality(awaiting(p)) |-> [promise |-> p]]
                     /\ IF dom.subject
                        THEN /\ insertBanner(resp, getMessageId(dom).id)
                             /\ sent' = [sent EXCEPT !.checkAiAvailable =
                                            @ + Cardinality(awaiting(p))]
                        ELSE /\ removeBanner
                             /\ UNCHANGED << bannerContent, sent >>
                     /\ UNCHANGED observer
       /\ UNCHANGED << callers, runtimeAlive, dom, located, windowMessages, aiVars,
                       asyncVars, engineVars, rootVars, workerVars >>

InitView ==
    /\ dom \in { ViewPage(TRUE), ViewPage(FALSE) }
    /\ located = << >>
    /\ observer = [active |-> FALSE, connected |-> FALSE]
    /\ insertions = << >>
    /\ sent = NoneSent
    /\ windowMessages = << >>
    /\ PageIdle /\ AiIdle /\ AsyncIdle /\ EngineIdle
    /\ RootIdle /\ BannerIdle /\ WorkerIdle

NextView ==
    \/ StartObserver
    \/ Mutation
    \/ GmailRenders
    \/ ViewCallback
    \/ RuntimeInvalidated

SpecView == InitView /\ [][NextView]_vars

\* C38: for one resolved sender-info request insertBanner runs once, however
\* many scans were waiting for it, and the page never holds more than one
\* banner.
C38_InsertedOnce ==
    /\ \A i, j \in DOMAIN insertions :
          insertions[i].promise = insertions[j].promise => i = j
    /\ bannersInPage <= 1

\* What does hold: at most one banner is in the page
C38_OneBanner == bannersInPage <= 1

\* Two scans waited for the same request and each of them inserted a banner
C38_InsertedTwice ==
    /\ Len(insertions) = 2
    /\ insertions[1].promise = insertions[2].promise
    /\ sent.getSenderInfo = 1 /\ sent.checkAiAvailable = 2
    /\ bannersInPage = 1

\* C39: once contextValid is false it stays false, the MutationObserver is
\* not connected, scan changes nothing and no message is sent to the worker.
C39_Absorbing ==
    /\ [](~contextValid => ~observer.connected)
    /\ [][~contextValid =>
             /\ ~contextValid'
             /\ sent' = sent
             /\ insertions' = insertions
             /\ UNCHANGED << pendingRequests, bannerContent, currentBannerEmail >>]_vars

\* What does hold: everything but the observer
C39_Quiet ==
    [][~contextValid =>
          /\ ~contextValid'
          /\ sent' = sent
          /\ insertions' = insertions
          /\ UNCHANGED << pendingRequests, bannerContent, currentBannerEmail >>]_vars

\* The context is invalid and the observer is connected
C39_ObserverConnected == ~contextValid /\ observer.connected

(***************************************************************************)
(* The header-fetch messages between the two scripts (SpecHeaders)         *)
(***************************************************************************)

FetchMessages == { m \in DOMAIN windowMessages : windowMessages[m].type = "gsi-fetch-headers" }

ResultMessages == { m \in DOMAIN windowMessages : windowMessages[m].type = "gsi-headers-result" }

\* The results posted for fetch message m
ResultsFor(m) == { n \in ResultMessages : windowMessages[n].origin = m }

\* C40: page-fetch.js posts one gsi-headers-result for each gsi-fetch-headers
\* message it has handled, none before, and the result carries the requestId
\* of that message and an error, authData or headers; no two calls of
\* fetchEmailHeaders use the same requestId; a call is resolved with a posted
\* result only if the result carries the call's requestId and answers the
\* message the call posted.
C40_Protocol ==
    /\ \A m \in FetchMessages :
          /\ Cardinality(ResultsFor(m)) = IF windowMessages[m].handled THEN 1 ELSE 0
          /\ \A n \in ResultsFor(m) :
                /\ windowMessages[n].requestId = windowMessages[m].requestId
                /\ windowMessages[n].result.kind \in { "error", "authData", "headers" }
    /\ \A g, h \in DOMAIN headerRequests :
          headerRequests[g].id = headerRequests[h].id => g = h
    /\ \A m, n \in FetchMessages :
          windowMessages[m].requestId = windowMessages[n].requestId => m = n
    /\ \A h \in DOMAIN headerRequests :
          LET r == headerRequests[h]
          IN  (r.resolves >= 1 /\ r.value # HeaderError("timeout")) =>
                 \E n \in ResultMessages :
                    /\ windowMessages[n].handled
                    /\ windowMessages[n].requestId = r.id
                    /\ windowMessages[n].result = r.value
                    /\ windowMessages[windowMessages[n].origin].requestId = r.id
                    /\ Cardinality({ k \in FetchMessages : k <= windowMessages[n].origin }) = h

\* Two calls in flight, the fetch of the second settles first, and each call
\* is resolved with its own result
C40_Witness ==
    /\ Len(headerRequests) = 2 /\ Len(windowMessages) = 4
    /\ windowMessages[3].requestId = 2 /\ windowMessages[3].handled
    /\ windowMessages[4].requestId = 1 /\ windowMessages[4].handled
    /\ headerRequests[1].value = windowMessages[4].result
    /\ headerRequests[2].value = windowMessages[3].result
    /\ headerRequests[1].value.kind = "headers"
    /\ headerRequests[2].value.kind = "error"


====
